---- MODULE Spec2Model ----
(***************************************************************************)
(* Model of the win-rate driver analysis (src/src/decision_engine.py,      *)
(* class WinRateDriverAnalyzer).                                           *)
(*                                                                         *)
(* The held DataFrame is a sequence of blocks; a block stands for n rows   *)
(* that carry the same factor values, won of them with is_won = 1.         *)
(* Floating-point quantities of the code are modelled by exact rationals:  *)
(* small fractions over the integers for win rates and deviations, and     *)
(* rationals over arbitrary-precision naturals for chi-square, which needs *)
(* more than 32 bits.  Cramer's V, a square root, is carried by its square.*)
(***************************************************************************)
EXTENDS Integers, Sequences, FiniteSets, TLC

\* F(e) with e evaluated once: LET binds a name to an expression, this binds
\* it to the value
Let(e, F(_)) == CHOOSE r \in {F(x) : x \in {e}} : TRUE

(***************************************************************************)
(* Arbitrary-precision naturals: little-endian sequences of limbs in base  *)
(* 10000, without leading zero limbs (zero is the empty sequence).         *)
(***************************************************************************)
Bigs == Seq(Nat)

BigFromInt[k \in Nat] ==
    IF k = 0 THEN <<>> ELSE <<k % 10000>> \o BigFromInt[k \div 10000]

BigNorm[a \in Bigs] ==
    IF a = <<>> THEN <<>>
    ELSE IF a[Len(a)] = 0 THEN BigNorm[SubSeq(a, 1, Len(a) - 1)] ELSE a

BigAddC[a \in Bigs, b \in Bigs, c \in Nat] ==
    IF a = <<>> /\ b = <<>> THEN (IF c = 0 THEN <<>> ELSE <<c>>)
    ELSE LET x == IF a = <<>> THEN 0 ELSE Head(a)
             y == IF b = <<>> THEN 0 ELSE Head(b)
         IN  <<(x + y + c) % 10000>>
             \o BigAddC[IF a = <<>> THEN <<>> ELSE Tail(a),
                        IF b = <<>> THEN <<>> ELSE Tail(b),
                        (x + y + c) \div 10000]

BigAdd[a \in Bigs, b \in Bigs] == BigAddC[a, b, 0]

\* a times one limb d (0 <= d < 10000), plus the carry c
BigMulLimbC[a \in Bigs, d \in Nat, c \in Nat] ==
    IF a = <<>> THEN (IF c = 0 THEN <<>> ELSE <<c>>)
    ELSE <<(Head(a) * d + c) % 10000>>
         \o BigMulLimbC[Tail(a), d, (Head(a) * d + c) \div 10000]

\* a times the base
BigShift[a \in Bigs] == IF a = <<>> THEN <<>> ELSE <<0>> \o a

BigMul[a \in Bigs, b \in Bigs] ==
    IF a = <<>> \/ b = <<>> THEN <<>>
    ELSE BigAdd[BigNorm[BigMulLimbC[a, Head(b), 0]], BigShift[BigMul[a, Tail(b)]]]

\* the comparison of a and b from limb i down, both of the same length
BigCmpFrom[a \in Bigs, b \in Bigs, i \in Nat] ==
    IF i = 0 THEN 0
    ELSE IF a[i] < b[i] THEN -1
    ELSE IF a[i] > b[i] THEN 1
    ELSE BigCmpFrom[a, b, i - 1]

\* -1, 0, 1 as a < b, a = b, a > b
BigCmp[a \in Bigs, b \in Bigs] ==
    IF Len(a) < Len(b) THEN -1
    ELSE IF Len(a) > Len(b) THEN 1
    ELSE BigCmpFrom[a, b, Len(a)]

(***************************************************************************)
(* Non-negative rationals [num, den] over the big naturals, den > 0.       *)
(***************************************************************************)
Rats == [num : Bigs, den : Bigs]

Rat(p, q) == [num |-> BigFromInt[p], den |-> BigFromInt[q]]
RatZero == Rat(0, 1)
RatAdd[x \in Rats, y \in Rats] ==
    [num |-> BigAdd[BigMul[x.num, y.den], BigMul[y.num, x.den]],
     den |-> BigMul[x.den, y.den]]
RatDivInt[x \in Rats, k \in Nat] ==
    [num |-> x.num, den |-> BigMul[x.den, BigFromInt[k]]]
RatCmp[x \in Rats, y \in Rats] ==
    BigCmp[BigMul[x.num, y.den], BigMul[y.num, x.den]]
RatEq(x, y) == RatCmp[x, y] = 0
RatLe(x, y) == RatCmp[x, y] <= 0
RatLt(x, y) == RatCmp[x, y] < 0

(***************************************************************************)
(* Small signed fractions [num, den] over TLC's integers, den > 0, kept in *)
(* lowest terms: win rates, deviations, expected frequencies.              *)
(***************************************************************************)
Fracs == [num : Int, den : Nat]

Abs(x) == IF x < 0 THEN -x ELSE x
Sign(x) == IF x > 0 THEN 1 ELSE IF x < 0 THEN -1 ELSE 0
Min(a, b) == IF a < b THEN a ELSE b

GCD[a \in Nat, b \in Nat] == IF b = 0 THEN a ELSE GCD[b, a % b]

\* p / q in lowest terms, q > 0
Frac[p \in Int, q \in Nat] ==
    [num |-> p \div GCD[Abs(p), q], den |-> q \div GCD[Abs(p), q]]
FracInt(k) == [num |-> k, den |-> 1]
FracSub[a \in Fracs, b \in Fracs] ==
    Frac[a.num * b.den - b.num * a.den, a.den * b.den]
FracAdd[a \in Fracs, b \in Fracs] ==
    Frac[a.num * b.den + b.num * a.den, a.den * b.den]
FracMul[a \in Fracs, b \in Fracs] ==
    [num |-> (a.num \div GCD[Abs(a.num), b.den])
             * (b.num \div GCD[Abs(b.num), a.den]),
     den |-> (a.den \div GCD[Abs(b.num), a.den])
             * (b.den \div GCD[Abs(a.num), b.den])]
FracAbs[a \in Fracs] == [num |-> Abs(a.num), den |-> a.den]
FracLt(a, b) == a.num * b.den < b.num * a.den
FracLe(a, b) == a.num * b.den <= b.num * a.den
FracMin[a \in Fracs, b \in Fracs] == IF FracLt(b, a) THEN b ELSE a
\* int() of a non-negative fraction
FracTrunc[a \in Fracs] == a.num \div a.den
\* round(x, 1), in tenths: the nearest tenth, an exact tie going to the even one
\* (on a binary float the representation error of x decides such a tie)
RoundTenths[a \in Fracs] ==
    LET lo == (Abs(a.num) * 10) \div a.den
        twice == 2 * (Abs(a.num) * 10 - lo * a.den)
        up == twice > a.den \/ (twice = a.den /\ lo % 2 = 1)
    IN  Sign(a.num) * (IF up THEN lo + 1 ELSE lo)

(***************************************************************************)
(* The DataFrame.                                                          *)
(***************************************************************************)
\* a missing value (NaN / None) of a factor column
Null == "NaN"

\* self.factors
factors ==
    <<"region", "industry", "product_type", "lead_source", "deal_stage",
      "sales_rep_id">>

FactorSet == {factors[i] : i \in 1..Len(factors)}

MIN_DEALS_FOR_INSIGHT == 100

\* The category labels of the model in Python's string order, which is the
\* order pd.crosstab and groupby sort their groups in.
LabelOrder ==
    <<"Core", "Demo", "East", "Enterprise", "Finance", "Inbound", "Outbound",
      "Partner", "Proposal", "Retail", "South", "Tech", "West",
      "r1", "r2", "r3", "r4", "r5", "r6", "r7", "r8">>

\* n rows with the same values: won of them have is_won = 1, deal_amount is
\* their sum of deal_amount (the same on each row), closed and cycle are
\* their closed_date, a day number, and their sales_cycle_days
Block(n, won, region, industry, lead_source, deal_stage, rep, amount, closed, cycle) ==
    [n |-> n, won |-> won, region |-> region, industry |-> industry,
     product_type |-> "Core", lead_source |-> lead_source,
     deal_stage |-> deal_stage, sales_rep_id |-> rep, deal_amount |-> amount,
     closed_date |-> closed, sales_cycle_days |-> cycle]

\* The blocks datasets are made of.  The first three are the three-region
\* scenario of the specification; the others put deal counts on both sides of
\* the 100-observation gate, the 100-deal category floor and the 50-deal rep
\* floor, with segments that are all won, all lost and missing a lead source.
BlockPool ==
    << Block(120, 70, "East",  "Tech",   "Inbound", "Demo",     "r1", 1200, 300, 30),
       Block(150, 60, "West",  "Retail", "Inbound", "Proposal", "r2", 3000, 280, 60),
       Block( 90, 30, "South", "Tech",   Null,      "Demo",     "r3",  900, 300,  0),
       Block( 49, 49, "South", "Tech",   "Inbound", "Proposal", "r1",  980, 290, 10),
       Block(150,  0, "East",  "Retail", "Inbound", "Proposal", "r3", 1500, 300, 15),
       Block( 80, 80, "West",  "Tech",   "Inbound", "Proposal", "r3", 2400, 240, 30),
       Block( 50, 20, "West",  "Tech",   "Inbound", "Demo",     "r1",  500, 250,  5),
       Block(100, 10, "West",  "Retail", Null,      "Proposal", "r1", 1000, 100, 20) >>

\* at most MaxBlocks blocks of the pool make a dataset
MaxBlocks == 3
\* the largest n get_top_drivers is called with
MaxTopN == 3

\* the blocks of the pool with an index in S, in pool order
BlocksOf[S \in SUBSET (1..Len(BlockPool))] ==
    SelectSeq(BlockPool, LAMBDA b : \E i \in S : BlockPool[i] = b)

Datasets ==
    { BlocksOf[S] :
        S \in { T \in SUBSET (1..Len(BlockPool)) :
                  Cardinality(T) >= 1 /\ Cardinality(T) <= MaxBlocks } }

\* one rep far above the others, and seven reps of 50 deals each far below:
\* more than five at-risk reps, two of them with the same win rate, and more
\* than five categories that call for an opportunity
RepPool ==
    << Block(300, 270, "East",  "Tech",    "Inbound",  "Demo",     "r1", 9000, 300, 10),
       Block( 50,   5, "West",  "Retail",  "Outbound", "Proposal", "r2",  500, 300, 10),
       Block( 50,   3, "West",  "Retail",  "Outbound", "Proposal", "r3",  500, 300, 10),
       Block( 50,   3, "West",  "Retail",  "Outbound", "Proposal", "r4",  500, 300, 10),
       Block( 50,   8, "South", "Finance", "Outbound", "Proposal", "r5",  500, 300, 10),
       Block( 50,   0, "South", "Finance", "Outbound", "Proposal", "r6",  500, 300, 10),
       Block( 50,   6, "South", "Finance", "Outbound", "Proposal", "r7",  500, 300, 10),
       Block( 50,  10, "South", "Finance", "Outbound", "Proposal", "r8",  500, 300, 10) >>

MaxRepBlocks == 7

\* the first block of the pool with up to MaxRepBlocks of the others
RepFrames ==
    { SelectSeq(RepPool, LAMBDA b : \E i \in S \cup {1} : RepPool[i] = b) :
        S \in { T \in SUBSET (2..Len(RepPool)) : Cardinality(T) <= MaxRepBlocks } }

\* sum of F(i) for i in 1..n
SumTo(F(_), n) ==
    LET RECURSIVE Go(_)
        Go(k) == IF k = 0 THEN 0 ELSE Go(k - 1) + F(k)
    IN  Go(n)

\* the sequence F(1), ..., F(n)
SeqTo(F(_), n) ==
    LET RECURSIVE Go(_)
        Go(k) == IF k = 0 THEN <<>> ELSE Go(k - 1) \o <<F(k)>>
    IN  Go(n)

\* sum of K(b) over the blocks b of d
Total(K(_), d) == LET F(i) == K(d[i]) IN SumTo(F, Len(d))

\* len(df), df['is_won'].sum()
DealCount(d) == LET N(b) == b.n IN Total(N, d)
WonCount(d) == LET W(b) == b.won IN Total(W, d)

\* rows of category c of factor f with is_won = w
CellCount(d, f, c, w) ==
    LET K(b) == IF b[f] = c THEN (IF w = 1 THEN b.won ELSE b.n - b.won) ELSE 0
    IN  Total(K, d)

\* self.overall_win_rate: df['is_won'].mean() * 100
OverallWinRate(d) == Frac[100 * WonCount(d), DealCount(d)]

(***************************************************************************)
(* metrics.py: the deal velocity score and the rep momentum index.         *)
(***************************************************************************)
\* np.nan, the float 0 / 0: no comparison with it is true
NaN == [num |-> 0, den |-> 0]

\* deal_amount of each row of block b
RowAmount(b) == Frac[b.deal_amount, b.n]

\* the column as it is, zeros included
CycleDaysAsGiven(d) ==
    LET days(i) == d[i].sales_cycle_days IN SeqTo(days, Len(d))

\* df['sales_cycle_days'].replace(0, 1): a new column, one entry per block
ReplaceZeroCycleDays(d) ==
    LET days(i) == IF d[i].sales_cycle_days = 0 THEN 1
                   ELSE d[i].sales_cycle_days
    IN  SeqTo(days, Len(d))

\* a version that replaces the zeros in the frame it is given
DealVelocityScoreInPlace(d) ==
    Let(ReplaceZeroCycleDays(d), LAMBDA cycle_days :
        LET score(i) == Frac[d[i].deal_amount, d[i].n * cycle_days[i]]
            row(i) == [d[i] EXCEPT !.sales_cycle_days = cycle_days[i]]
        IN  [df |-> SeqTo(row, Len(d)), value |-> SeqTo(score, Len(d))])

\* calculate_deal_velocity_score(df): the frame after the call and the Series
\* returned, one entry per block; a score with den = 0 is a division by zero
DealVelocityScore(d) ==
    Let(ReplaceZeroCycleDays(d), LAMBDA cycle_days :
        LET score(i) == Frac[d[i].deal_amount, d[i].n * cycle_days[i]]
        IN  [df |-> d, value |-> SeqTo(score, Len(d))])

\* df[df['sales_rep_id'] == rep_id]
RepData(d, rep_id) == SelectSeq(d, LAMBDA b : b.sales_rep_id = rep_id)

\* rep_data['closed_date'].max(), rep_data not empty
MaxClosedDate(rep_data) ==
    CHOOSE m \in {rep_data[i].closed_date : i \in 1..Len(rep_data)} :
        \A i \in 1..Len(rep_data) : rep_data[i].closed_date <= m

\* the latest closed date of the whole frame
AnchorDateOfFrame(d, rep_data) == MaxClosedDate(d)

\* max_date: the date the windows of a rep are measured back from
AnchorDate(d, rep_data) == MaxClosedDate(rep_data)

\* rep_data[rep_data['closed_date'] >= cutoff]
ClosedSince(rep_data, cutoff) ==
    SelectSeq(rep_data, LAMBDA b : b.closed_date >= cutoff)

\* the thresholds one deal higher
EnoughDealsAbove(recent_count, historical_count) ==
    ~(recent_count <= 3 \/ historical_count <= 5)

\* not (len(recent_deals) < 3 or len(historical_deals) < 5)
EnoughDeals(recent_count, historical_count) ==
    ~(recent_count < 3 \/ historical_count < 5)

\* the historical window taken as the deals before the recent window
RepMomentumIndexDisjoint(d, rep_id, recent_days, historical_days) ==
    Let(RepData(d, rep_id), LAMBDA rep_data :
        IF DealCount(rep_data) = 0 THEN NaN
        ELSE Let(AnchorDate(d, rep_data), LAMBDA max_date :
             Let(ClosedSince(rep_data, max_date - recent_days), LAMBDA recent_deals :
             Let(SelectSeq(ClosedSince(rep_data, max_date - historical_days),
                           LAMBDA b : b.closed_date < max_date - recent_days),
                 LAMBDA historical_deals :
                 IF ~EnoughDeals(DealCount(recent_deals),
                                 DealCount(historical_deals))
                 THEN NaN
                 ELSE IF WonCount(historical_deals) = 0 THEN NaN
                 ELSE Frac[WonCount(recent_deals) * DealCount(historical_deals),
                           DealCount(recent_deals) * WonCount(historical_deals)]))))

\* calculate_rep_momentum_index(df, rep_id, recent_days, historical_days);
\* NaN is np.nan
RepMomentumIndex(d, rep_id, recent_days, historical_days) ==
    Let(RepData(d, rep_id), LAMBDA rep_data :
        IF DealCount(rep_data) = 0 THEN NaN
        ELSE Let(AnchorDate(d, rep_data), LAMBDA max_date :
             Let(ClosedSince(rep_data, max_date - recent_days), LAMBDA recent_deals :
             Let(ClosedSince(rep_data, max_date - historical_days),
                 LAMBDA historical_deals :
                 IF ~EnoughDeals(DealCount(recent_deals),
                                 DealCount(historical_deals))
                 THEN NaN
                 ELSE IF WonCount(historical_deals) = 0 THEN NaN
                 ELSE Frac[WonCount(recent_deals) * DealCount(historical_deals),
                           DealCount(recent_deals) * WonCount(historical_deals)]))))

\* df['sales_rep_id'].unique(): the reps in the order they first appear
UniqueReps(d) ==
    LET RECURSIVE Go(_)
        Go(k) ==
            IF k = 0 THEN <<>>
            ELSE Let(Go(k - 1), LAMBDA acc :
                     IF \E i \in 1..Len(acc) : acc[i] = d[k].sales_rep_id
                     THEN acc ELSE Append(acc, d[k].sales_rep_id))
    IN  Go(Len(d))

\* rep_data[rep_data['is_won'] == 1]['deal_amount'].sum()
WonRevenue(rep_data) ==
    LET RECURSIVE Go(_)
        Go(k) ==
            IF k = 0 THEN FracInt(0)
            ELSE FracAdd[Go(k - 1),
                         FracMul[FracInt(rep_data[k].won), RowAmount(rep_data[k])]]
    IN  Go(Len(rep_data))

\* the dict appended for one rep
RepMomentumRow(d, rep) ==
    Let(RepData(d, rep), LAMBDA rep_data :
        [sales_rep_id |-> rep,
         momentum_index |-> RepMomentumIndex(d, rep, 30, 90),
         total_deals |-> DealCount(rep_data),
         win_rate |-> Frac[100 * WonCount(rep_data), DealCount(rep_data)],
         total_revenue |-> WonRevenue(rep_data)])

\* results, before it is sorted
RepMomentumRows(d) ==
    Let(UniqueReps(d), LAMBDA reps :
        LET row(i) == RepMomentumRow(d, reps[i]) IN SeqTo(row, Len(reps)))

\* momentum ascending
MomentumBeforeAscending(a, b) == a # NaN /\ (b = NaN \/ FracLt(a, b))

\* a row of momentum a must come before one of momentum b under
\* ascending=False, NaN last
MomentumBefore(a, b) == a # NaN /\ (b = NaN \/ FracLt(b, a))

\* DataFrame.sort_values('momentum_index', ascending=False): the default
\* sort (quicksort) is not stable, rows of equal momentum come in any order
SortValuesDescending(rows) ==
    {p \in {[i \in 1..Len(rows) |-> rows[f[i]]] :
              f \in Permutations(1..Len(rows))} :
        \A i \in 1..(Len(rows) - 1) :
            ~MomentumBefore(p[i + 1].momentum_index, p[i].momentum_index)}

\* calculate_all_rep_momentum(df): the outcomes it can have; pd.DataFrame([])
\* has no column, and sort_values raises KeyError for 'momentum_index'
AllRepMomentum(d) ==
    Let(RepMomentumRows(d), LAMBDA rows :
        IF Len(rows) = 0 THEN {[raised |-> TRUE, value |-> "KeyError"]}
        ELSE {[raised |-> FALSE, value |-> p] : p \in SortValuesDescending(rows)})

(***************************************************************************)
(* analyze_factor_impact                                                   *)
(***************************************************************************)
\* the categories of factor f that occur, in sorted order
Categories(d, f) ==
    SelectSeq(LabelOrder, LAMBDA c : \E i \in 1..Len(d) : d[i][f] = c)

\* pd.crosstab(df[f], df['is_won']): one row per category that occurs, one
\* column per is_won value that occurs among the rows with a factor value
Crosstab(d, f) ==
    LET colTotal(w) ==
            LET K(b) == IF b[f] = Null THEN 0
                        ELSE IF w = 1 THEN b.won ELSE b.n - b.won
            IN  Total(K, d)
    IN  Let(Categories(d, f), LAMBDA cats :
        Let(SelectSeq(<<0, 1>>, LAMBDA w : colTotal(w) > 0), LAMBDA cols :
            LET row(i) == LET cell(j) == CellCount(d, f, cats[i], cols[j])
                          IN  SeqTo(cell, Len(cols))
            IN  [index |-> cats,
                 columns |-> cols,
                 values |-> SeqTo(row, Len(cats))]))

RowTotal(t, i) == LET F(j) == t.values[i][j] IN SumTo(F, Len(t.columns))
ColTotal(t, j) == LET F(i) == t.values[i][j] IN SumTo(F, Len(t.index))
\* contingency.values.sum()
TableSum(t) == LET F(i) == RowTotal(t, i) IN SumTo(F, Len(t.index))

\* expected frequency of cell (i, j) under independence
Expected(t, i, j) == Frac[RowTotal(t, i) * ColTotal(t, j), TableSum(t)]

\* x squared over e, for fractions x >= 0 and e > 0
SquareOver(x, e) ==
    [num |-> BigMul[BigMul[BigFromInt[x.num], BigFromInt[x.num]],
                    BigFromInt[e.den]],
     den |-> BigMul[BigMul[BigFromInt[x.den], BigFromInt[x.den]],
                    BigFromInt[e.num]]]

\* (observed - expected)^2 / expected of one cell, the observed count moved
\* towards the expected one by min(1/2, |expected - observed|) when `yates`
\* (the continuity correction)
CellTerm(t, i, j, yates) ==
    Let(Expected(t, i, j), LAMBDA e :
    Let(FracAbs[FracSub[e, FracInt(t.values[i][j])]], LAMBDA dist :
        SquareOver(IF yates THEN FracSub[dist, FracMin[Frac[1, 2], dist]]
                   ELSE dist,
                   e)))

\* the sum of F(1), ..., F(n), rationals
RatSumTo(F(_), n) ==
    LET RECURSIVE Go(_)
        Go(k) == IF k = 0 THEN RatZero ELSE RatAdd[Go(k - 1), F(k)]
    IN  Go(n)

\* the statistic summed over all cells
CellSum(t, yates) ==
    LET row(i) == LET cell(j) == CellTerm(t, i, j, yates)
                  IN  RatSumTo(cell, Len(t.columns))
    IN  RatSumTo(row, Len(t.index))

\* 95% points of the chi-square distribution (3.841458820694124,
\* 5.991464547107979, 7.814727903251179, 9.487729036781154,
\* 11.070497693516351, 12.591587243743977, 14.067140449340169), for dof 1
\* to 7
Chi2Critical(dof) ==
    [num |-> CASE dof = 1 -> <<4124, 2069, 4588, 3841>>
               [] dof = 2 -> <<7979, 5471, 4645, 5991>>
               [] dof = 3 -> <<1179, 9032, 7279, 7814>>
               [] dof = 4 -> <<1154, 367, 7729, 9487>>
               [] dof = 5 -> <<6351, 9351, 4976, 1070, 1>>
               [] dof = 6 -> <<3977, 4374, 5872, 2591, 1>>
               [] OTHER   -> <<169, 4934, 1404, 671, 1>>,
     den |-> <<0, 0, 0, 1000>>]

\* dof of the table
DegreesOfFreedom(t) == (Len(t.index) - 1) * (Len(t.columns) - 1)

\* chi2_contingency(contingency, correction=False)
YatesNever(dof) == FALSE

\* whether the continuity correction applies: dof == 1 and correction
YatesApplies(dof) == dof = 1

\* scipy.stats.chi2_contingency(contingency), correction=True by default:
\* chi2 = 0 and p = 1 when dof = 0, Yates' correction when dof = 1
Chi2Contingency(t) ==
    Let(DegreesOfFreedom(t), LAMBDA dof :
    Let(IF dof = 0 THEN RatZero ELSE CellSum(t, YatesApplies(dof)), LAMBDA chi2 :
        [chi2 |-> chi2,
         dof |-> dof,
         \* p_value < 0.05
         p_below_005 |-> dof > 0 /\ RatLt(Chi2Critical(dof), chi2)]))

\* df.groupby(f).agg(deal_id count, is_won mean, deal_amount sum), with the
\* win_rate in percent and its difference to the overall win rate
FactorStats(d, f) ==
    Let(Categories(d, f), LAMBDA cats :
    Let(OverallWinRate(d), LAMBDA overall :
        LET stat(i) ==
                LET c == cats[i]
                    rev == LET A(b) == IF b[f] = c THEN b.deal_amount ELSE 0
                           IN  Total(A, d)
                IN  Let(CellCount(d, f, c, 0) + CellCount(d, f, c, 1), LAMBDA cnt :
                    Let(Frac[100 * CellCount(d, f, c, 1), cnt], LAMBDA wr :
                        [category |-> c,
                         deal_count |-> cnt,
                         win_rate |-> wr,
                         total_revenue |-> rev,
                         win_rate_diff |-> FracSub[wr, overall]]))
        IN  SeqTo(stat, Len(cats))))

\* the first position, whatever the win rates
IdxFirst(st) == 1

\* the last position of the maximum win rate
IdxMaxLast(st) ==
    LET RECURSIVE Go(_)
        Go(k) == IF k = 1 THEN 1
                 ELSE Let(Go(k - 1), LAMBDA m :
                          IF FracLe(st[m].win_rate, st[k].win_rate) THEN k ELSE m)
    IN  Go(Len(st))

\* Series.idxmax(): the first position of the maximum win rate
IdxMax(st) ==
    LET RECURSIVE Go(_)
        Go(k) == IF k = 1 THEN 1
                 ELSE Let(Go(k - 1), LAMBDA m :
                          IF FracLt(st[m].win_rate, st[k].win_rate) THEN k ELSE m)
    IN  Go(Len(st))

\* the last position, whatever the win rates
IdxLast(st) == Len(st)

\* Series.idxmin(): the first position of the minimum win rate
IdxMin(st) ==
    LET RECURSIVE Go(_)
        Go(k) == IF k = 1 THEN 1
                 ELSE Let(Go(k - 1), LAMBDA m :
                          IF FracLt(st[k].win_rate, st[m].win_rate) THEN k ELSE m)
    IN  Go(Len(st))

\* a gate that also turns away a table of exactly MIN_DEALS_FOR_INSIGHT rows
BelowGateInclusive(t) == TableSum(t) <= MIN_DEALS_FOR_INSIGHT

\* the gate: contingency.values.sum() < MIN_DEALS_FOR_INSIGHT
BelowGate(t) == TableSum(t) < MIN_DEALS_FOR_INSIGHT

\* min(contingency.shape) - 1
MinDim(t) == Min(Len(t.index), Len(t.columns)) - 1

\* the quotient without its guard: a zero denominator when min_dim = 0
CramersVSqUnguarded(t, chi2) == RatDivInt[chi2, TableSum(t) * MinDim(t)]

\* chi-square not normalised by the number of observations
CramersVSqOverMinDim(t, chi2) ==
    IF MinDim(t) > 0 THEN RatDivInt[chi2, MinDim(t)] ELSE RatZero

\* chi-square normalised by the square of the number of observations
CramersVSqOverSquare(t, chi2) ==
    IF MinDim(t) > 0
    THEN RatDivInt[chi2, TableSum(t) * TableSum(t) * MinDim(t)] ELSE RatZero

\* Cramer's V squared: chi2 / (n * min_dim) if min_dim > 0 else 0
CramersVSq(t, chi2) ==
    IF MinDim(t) > 0 THEN RatDivInt[chi2, TableSum(t) * MinDim(t)] ELSE RatZero

\* the bands with >= in place of >
EffectSizeInclusive(vsq) ==
    IF RatLe(Rat(1, 16), vsq) THEN "large"
    ELSE IF RatLe(Rat(9, 400), vsq) THEN "medium"
    ELSE "small"

\* 'large' if cramers_v > 0.25 else 'medium' if cramers_v > 0.15 else 'small'
EffectSize(vsq) ==
    IF RatLt(Rat(1, 16), vsq) THEN "large"
    ELSE IF RatLt(Rat(9, 400), vsq) THEN "medium"
    ELSE "small"

\* the value returned for "no result"
None == [none |-> TRUE]

\* analyze_factor_impact(factor)
AnalyzeFactorImpact(d, f) ==
    Let(Crosstab(d, f), LAMBDA t :
        IF BelowGate(t) THEN None
        ELSE Let(Chi2Contingency(t), LAMBDA test :
             Let(FactorStats(d, f), LAMBDA st :
             Let(CramersVSq(t, test.chi2), LAMBDA vsq :
             Let(IdxMax(st), LAMBDA best :
             Let(IdxMin(st), LAMBDA worst :
                 [none |-> FALSE,
                  factor |-> f,
                  chi_square |-> test.chi2,
                  degrees_of_freedom |-> test.dof,
                  cramers_v_sq |-> vsq,
                  significant |-> test.p_below_005,
                  effect_size |-> EffectSize(vsq),
                  category_stats |-> st,
                  best_category |-> st[best].category,
                  worst_category |-> st[worst].category,
                  best_win_rate |-> st[best].win_rate,
                  worst_win_rate |-> st[worst].win_rate,
                  spread |-> FracSub[st[best].win_rate, st[worst].win_rate]]))))))

\* analyze_factor_impact is a function of the frame and the factor: its
\* results over the datasets of the model, computed once (@@ <<>> makes the
\* function an explicit table)
AnalysisTable ==
    [p \in (Datasets \cup RepFrames) \X FactorSet |->
        AnalyzeFactorImpact(p[1], p[2])] @@ <<>>

Analysis(d, f) == AnalysisTable[<<d, f>>]

(***************************************************************************)
(* The analyzer object.                                                    *)
(***************************************************************************)
VARIABLES
    df,              \* self.df: the held DataFrame, a sequence of blocks
    has_velocity,    \* 'velocity_score' in self.df.columns
    results,         \* self.results: a dict, as the sequence of its values in
                     \* insertion order (each value names its key in .factor)
    factor_ranking,  \* self.factor_ranking, NoAttribute before it is first set
    ret              \* the outcome of the last call

vars == <<df, has_velocity, results, factor_ranking, ret>>

NoAttribute == <<"<no attribute>">>

\* the analyzer's own fields, as the methods read and write them; analyses
\* records the calls of analyze_factor_impact made since the current call of
\* a public method began: the factors, in the order they were analysed
Self == [df |-> df, has_velocity |-> has_velocity, results |-> results,
         factor_ranking |-> factor_ranking, analyses |-> <<>>]

\* a call's outcome: the object after it, and what it returned or raised
Returned(self, v) == [self |-> self, raised |-> FALSE, value |-> v]
Raised(self, e) == [self |-> self, raised |-> TRUE, value |-> e]

DictHas(res, f) == \E i \in 1..Len(res) : res[i].factor = f

\* self.results[factor] = result: an existing key keeps its place
DictSet(res, r) ==
    IF DictHas(res, r.factor)
    THEN LET at(i) == IF res[i].factor = r.factor THEN r ELSE res[i]
         IN  SeqTo(at, Len(res))
    ELSE Append(res, r)

\* sorted(s, key=...): stable, elements with equal keys keep their order;
\* Before(x, y) says that x's key puts it strictly ahead of y
Sorted(s, Before(_, _)) ==
    LET RECURSIVE Insert(_, _)
        \* x put into the sorted acc behind every element it does not precede
        Insert(acc, x) ==
            IF acc = <<>> THEN <<x>>
            ELSE IF Before(x, Head(acc)) THEN <<x>> \o acc
            ELSE <<Head(acc)>> \o Insert(Tail(acc), x)
        RECURSIVE SortedTo(_)
        SortedTo(k) ==
            IF k = 0 THEN <<>>
            ELSE Let(SortedTo(k - 1), LAMBDA acc : Insert(acc, s[k]))
    IN  SortedTo(Len(s))

\* is x < y, for the cramers_v values x, y of two results over one frame:
\* RatLt, tabulated
CramersVPairs ==
    UNION {{<<Analysis(d, f).cramers_v_sq, Analysis(d, g).cramers_v_sq>> :
                f, g \in {h \in FactorSet : ~Analysis(d, h).none}} :
           d \in Datasets \cup RepFrames}

CramersVLess == [p \in CramersVPairs |-> RatLt(p[1], p[2])] @@ <<>>

\* the same key without reverse=True
ByCramersVAsc(a, b) == CramersVLess[<<a.cramers_v_sq, b.cramers_v_sq>>]

\* key=lambda x: x[1]['cramers_v'], reverse=True
ByCramersVDesc(a, b) == CramersVLess[<<b.cramers_v_sq, a.cramers_v_sq>>]

\* sorted(self.results.items(), key=cramers_v, reverse=True)
RankedResults(res) == Sorted(res, ByCramersVDesc)

\* a loop that ends at the first None
AnalyzeLoopUntilNone(d, res0) ==
    LET RECURSIVE From(_, _)
        From(res, k) ==
            IF k > Len(factors) THEN res
            ELSE Let(Analysis(d, factors[k]), LAMBDA result :
                     IF result.none THEN res
                     ELSE From(DictSet(res, result), k + 1))
    IN  From(res0, 1)

\* the loop of analyze_all_factors: a result that is not None is stored
AnalyzeLoop(d, res0) ==
    LET RECURSIVE From(_, _)
        From(res, k) ==
            IF k > Len(factors) THEN res
            ELSE Let(Analysis(d, factors[k]), LAMBDA result :
                 Let(IF result.none THEN res ELSE DictSet(res, result),
                     LAMBDA stored : From(stored, k + 1)))
    IN  From(res0, 1)

\* analyze_all_factors()
AnalyzeAll(self) ==
    Let(AnalyzeLoop(self.df, self.results), LAMBDA res :
    Let(RankedResults(res), LAMBDA ranked :
        LET name(i) == ranked[i].factor
        IN  Returned([self EXCEPT !.results = res,
                                  !.factor_ranking = SeqTo(name, Len(ranked)),
                                  !.analyses = @ \o factors],
                     res)))

\* if not self.results: self.analyze_all_factors()
EnsureAnalyzed(self) ==
    IF self.results = <<>> THEN AnalyzeAll(self).self ELSE self

\* the first n results in the order of the dict
TopDriversInDictOrder(self, n) ==
    Let(EnsureAnalyzed(self), LAMBDA s :
        Returned(s, SubSeq(s.results, 1, Min(n, Len(s.results)))))

\* get_top_drivers(n), n >= 0
TopDrivers(self, n) ==
    Let(EnsureAnalyzed(self), LAMBDA s :
    Let(RankedResults(s.results), LAMBDA sorted_factors :
        Returned(s, SubSeq(sorted_factors, 1, Min(n, Len(sorted_factors))))))

\* _generate_recommendation: the template and the category it is filled with
Recommendation(factor, category) ==
    [template |-> IF factor \in {"region", "industry", "product_type",
                                 "lead_source", "deal_stage"}
                  THEN factor ELSE "generic",
     category |-> category]

\* round() in place of int()
PotentialAdditionalWinsNearest(diff, deal_count) ==
    Abs(RoundTenths[FracMul[FracMul[FracMul[FracAbs[diff], Frac[1, 100]],
                                    FracInt(deal_count)],
                            Frac[1, 10]]])

\* int(abs(diff) / 100 * cat_stat['deal_count'])
PotentialAdditionalWins(diff, deal_count) ==
    FracTrunc[FracMul[FracMul[FracAbs[diff], Frac[1, 100]], FracInt(deal_count)]]

\* the conditions with the floor of 100 deals included
IsOpportunityAtFloor(cat_stat) ==
    FracLt(cat_stat.win_rate_diff, FracInt(-5)) /\ cat_stat.deal_count >= 100

\* diff < -5 and cat_stat['deal_count'] > 100
IsOpportunity(cat_stat) ==
    FracLt(cat_stat.win_rate_diff, FracInt(-5)) /\ cat_stat.deal_count > 100

\* 'High' from -10 on
PriorityInclusive(diff) ==
    IF FracLe(diff, FracInt(-10)) THEN "High" ELSE "Medium"

\* 'High' if diff < -10 else 'Medium'
Priority(diff) == IF FracLt(diff, FracInt(-10)) THEN "High" ELSE "Medium"

Opportunity(factor, cat_stat) ==
    [factor |-> factor,
     category |-> cat_stat.category,
     current_win_rate |-> RoundTenths[cat_stat.win_rate],
     vs_average |-> RoundTenths[cat_stat.win_rate_diff],
     deal_count |-> cat_stat.deal_count,
     potential_additional_wins |->
         PotentialAdditionalWins(cat_stat.win_rate_diff, cat_stat.deal_count),
     priority |-> Priority(cat_stat.win_rate_diff),
     recommendation |-> Recommendation(factor, cat_stat.category)]

\* the inner loop over result['category_stats']
CategoryOpportunities(result) ==
    LET RECURSIVE From(_)
        From(k) ==
            IF k > Len(result.category_stats) THEN <<>>
            ELSE (IF IsOpportunity(result.category_stats[k])
                  THEN <<Opportunity(result.factor, result.category_stats[k])>>
                  ELSE <<>>)
                 \o From(k + 1)
    IN  From(1)

\* if factor == 'sales_rep_id': continue
SkippedFactor(factor) == factor = "sales_rep_id"

\* the outer loop over self.results.items()
CollectOpportunities(res) ==
    LET RECURSIVE From(_)
        From(k) ==
            IF k > Len(res) THEN <<>>
            ELSE (IF SkippedFactor(res[k].factor) THEN <<>>
                  ELSE CategoryOpportunities(res[k]))
                 \o From(k + 1)
    IN  From(1)

\* the same key without reverse=True
ByWinsAsc(a, b) == a.potential_additional_wins < b.potential_additional_wins

\* key=lambda x: x['potential_additional_wins'], reverse=True
ByWinsDesc(a, b) == a.potential_additional_wins > b.potential_additional_wins

\* sorted(opportunities, key=potential_additional_wins, reverse=True)
SortOpportunities(opps) == Sorted(opps, ByWinsDesc)

\* get_improvement_opportunities()
ImprovementOpportunities(self) ==
    Let(EnsureAnalyzed(self), LAMBDA s :
    Let(CollectOpportunities(s.results), LAMBDA opps :
        Returned(s, SortOpportunities(opps))))

MIN_DEALS_FOR_REP == 50

\* the chain with > in place of >=
TierOfStrict(rate, overall) ==
    IF FracLt(FracAdd[overall, FracInt(10)], rate) THEN "top_performers"
    ELSE IF FracLt(overall, rate) THEN "solid_performers"
    ELSE IF FracLt(FracSub[overall, FracInt(10)], rate) THEN "needs_improvement"
    ELSE "at_risk"

\* the tier of a rep with win rate `rate`, by the if/elif chain
TierOf(rate, overall) ==
    IF FracLe(FracAdd[overall, FracInt(10)], rate) THEN "top_performers"
    ELSE IF FracLe(overall, rate) THEN "solid_performers"
    ELSE IF FracLe(FracSub[overall, FracInt(10)], rate) THEN "needs_improvement"
    ELSE "at_risk"

TierNames ==
    {"top_performers", "solid_performers", "needs_improvement", "at_risk"}

\* the (rep, rate, count) entries appended to tier `name`; a rep with
\* count < 50 is skipped
TierMembers(st, overall, name) ==
    LET RECURSIVE From(_)
        From(k) ==
            IF k > Len(st) THEN <<>>
            ELSE (IF st[k].deal_count >= MIN_DEALS_FOR_REP
                     /\ TierOf(st[k].win_rate, overall) = name
                  THEN <<[rep |-> st[k].category, rate |-> st[k].win_rate,
                          count |-> st[k].deal_count]>>
                  ELSE <<>>)
                 \o From(k + 1)
    IN  From(1)

\* get_rep_performance_tiers(): result['category_stats'] of a None result
\* raises TypeError
RepPerformanceTiers(self0) ==
    Let([self0 EXCEPT !.analyses = Append(@, "sales_rep_id")], LAMBDA self :
    Let(Analysis(self.df, "sales_rep_id"), LAMBDA result :
        IF result.none THEN Raised(self, "TypeError")
        ELSE Let(OverallWinRate(self.df), LAMBDA overall :
                 Returned(self,
                     [top_performers |->
                          TierMembers(result.category_stats, overall, "top_performers"),
                      solid_performers |->
                          TierMembers(result.category_stats, overall, "solid_performers"),
                      needs_improvement |->
                          TierMembers(result.category_stats, overall, "needs_improvement"),
                      at_risk |->
                          TierMembers(result.category_stats, overall, "at_risk")]))))

\* the same key with reverse=True
ByRateDesc(a, b) == FracLt(b.rate, a.rate)

\* key=lambda x: x[1]: ascending win rate
ByRateAsc(a, b) == FracLt(a.rate, b.rate)

\* the industries with a won deal, in sorted order: the groups of
\* df[df['is_won'] == 1].groupby('industry')
WonIndustries(d) ==
    SelectSeq(LabelOrder,
              LAMBDA c : \E i \in 1..Len(d) : d[i].industry = c /\ d[i].won > 0)

\* the mean of velocity_score over the won rows with an industry in cs; NaN
\* when there is no such row
WonVelocityMean(d, scores, cs) ==
    LET RECURSIVE Go(_)
        Go(k) ==
            IF k = 0 THEN FracInt(0)
            ELSE IF d[k].industry \in cs
                 THEN FracAdd[Go(k - 1), FracMul[FracInt(d[k].won), scores[k]]]
                 ELSE Go(k - 1)
        W(b) == IF b.industry \in cs THEN b.won ELSE 0
    IN  Let(Total(W, d), LAMBDA count :
            IF count = 0 THEN NaN
            ELSE Let(Go(Len(d)), LAMBDA sum : Frac[sum.num, sum.den * count]))

\* groupby('industry')['velocity_score'].mean() of the won deals, and the
\* position idxmax() gives: the first one of the greatest mean
IndustryVelocityMeans(d, scores) ==
    Let(WonIndustries(d), LAMBDA cs :
        LET mean(i) == [industry |-> cs[i],
                        velocity |-> WonVelocityMean(d, scores, {cs[i]})]
        IN  SeqTo(mean, Len(cs)))

VelocityIdxMax(means) ==
    LET RECURSIVE Go(_)
        Go(k) == IF k = 1 THEN 1
                 ELSE Let(Go(k - 1), LAMBDA m :
                          IF FracLt(means[m].velocity, means[k].velocity)
                          THEN k ELSE m)
    IN  Go(Len(means))

\* the rows whose momentum_index is not above 0.9
DecliningCountNotAbove(rows) ==
    Cardinality({i \in 1..Len(rows) : ~FracLt(Frac[9, 10], rows[i].momentum_index)})

\* len(momentum_df[momentum_df['momentum_index'] > 1.1]), and < 0.9
ImprovingCount(rows) ==
    Cardinality({i \in 1..Len(rows) : FracLt(Frac[11, 10], rows[i].momentum_index)})
DecliningCount(rows) ==
    Cardinality({i \in 1..Len(rows) : FracLt(rows[i].momentum_index, Frac[9, 10])})

\* the strategic metrics section, on the frame with its velocity_score
\* column: idxmax() of an empty Series raises ValueError; the two counts do
\* not depend on the order of the rows of momentum_df
StrategicMetrics(self) ==
    Let(DealVelocityScore(self.df).value, LAMBDA scores :
    Let(WonVelocityMean(self.df, scores,
                        {self.df[i].industry : i \in 1..Len(self.df)}),
        LAMBDA avg_velocity :
    Let(IndustryVelocityMeans(self.df, scores), LAMBDA means :
        IF Len(means) = 0 THEN Raised(self, "ValueError")
        ELSE Let(CHOOSE o \in AllRepMomentum(self.df) : TRUE, LAMBDA momentum_df :
             IF momentum_df.raised THEN Raised(self, momentum_df.value)
             ELSE Returned(self,
                      [avg_velocity |-> avg_velocity,
                       top_vel_industry |-> means[VelocityIdxMax(means)].industry,
                       top_vel_val |-> means[VelocityIdxMax(means)].velocity,
                       improving |-> ImprovingCount(momentum_df.value),
                       declining |-> DecliningCount(momentum_df.value)])))))

\* if 'velocity_score' not in self.df.columns:
\*     self.df['velocity_score'] = calculate_deal_velocity_score(self.df)
\* the function is handed the analyzer's own frame
AttachVelocityScore(self) ==
    IF self.has_velocity THEN self
    ELSE Let(DealVelocityScore(self.df), LAMBDA scored :
             [self EXCEPT !.df = scored.df, !.has_velocity = TRUE])

\* generate_executive_summary(); the report is carried by the values it is
\* formatted from
ExecutiveSummary(self) ==
    Let(EnsureAnalyzed(self), LAMBDA s :
    Let(TopDrivers(s, 3), LAMBDA top :
    Let(ImprovementOpportunities(top.self), LAMBDA opps :
    Let(RepPerformanceTiers(opps.self), LAMBDA tiers :
        IF tiers.raised THEN tiers
        ELSE Let(AttachVelocityScore(tiers.self), LAMBDA withVelocity :
             Let(StrategicMetrics(withVelocity), LAMBDA metrics :
             IF metrics.raised THEN metrics
             ELSE Let(Sorted(tiers.value.at_risk, ByRateAsc), LAMBDA sorted :
                  Returned(withVelocity,
                      [overall_win_rate |-> RoundTenths[OverallWinRate(s.df)],
                       total_deals |-> DealCount(s.df),
                       top_drivers |-> top.value,
                       opportunities |->
                           SubSeq(opps.value, 1, Min(5, Len(opps.value))),
                       tier_counts |->
                           [name \in TierNames |-> Len(tiers.value[name])],
                       at_risk |-> SubSeq(sorted, 1, Min(5, Len(sorted))),
                       strategic_metrics |-> metrics.value]))))))))

\* get_actionable_outputs()
ActionableOutputs(self) ==
    Let(EnsureAnalyzed(self), LAMBDA s :
    Let(ImprovementOpportunities(s), LAMBDA opps :
    Let(RepPerformanceTiers(opps.self), LAMBDA tiers :
        IF tiers.raised THEN tiers
        ELSE Let(ExecutiveSummary(tiers.self), LAMBDA summary :
             IF summary.raised THEN summary
             ELSE Returned(summary.self,
                      [summary_metrics |->
                           [overall_win_rate |-> RoundTenths[OverallWinRate(s.df)],
                            total_deals |-> DealCount(s.df),
                            factor_ranking |-> s.factor_ranking],
                       factor_analysis |-> s.results,
                       improvement_opportunities |-> opps.value,
                       rep_tiers |-> tiers.value,
                       executive_summary |-> summary.value])))))

(***************************************************************************)
(* The state machine: an analyzer is built over a dataset, then its public *)
(* methods are called in any order.                                        *)
(***************************************************************************)
\* WinRateDriverAnalyzer(df)
Init ==
    /\ df \in Datasets
    /\ has_velocity = FALSE
    /\ results = <<>>
    /\ factor_ranking = NoAttribute
    /\ ret = [op |-> "__init__", arg |-> Null, raised |-> FALSE, value |-> Null,
              analyses |-> <<>>]

\* the object and the outcome after a call
Finish(op, arg, out) ==
    \E o \in {out} :
        /\ df' = o.self.df
        /\ has_velocity' = o.self.has_velocity
        /\ results' = o.self.results
        /\ factor_ranking' = o.self.factor_ranking
        /\ ret' = [op |-> op, arg |-> arg, raised |-> o.raised, value |-> o.value,
                   analyses |-> o.self.analyses]

\* a call that also stores its result under self.results[factor]
CallAnalyzeFactorImpactStoring(f) ==
    Finish("analyze_factor_impact", f,
           Returned([Self EXCEPT !.analyses = <<f>>,
                                 !.results = IF Analysis(df, f).none THEN @
                                             ELSE DictSet(@, Analysis(df, f))],
                    Analysis(df, f)))

CallAnalyzeFactorImpact(f) ==
    Finish("analyze_factor_impact", f,
           Returned([Self EXCEPT !.analyses = <<f>>], Analysis(df, f)))

CallAnalyzeAllFactors ==
    Finish("analyze_all_factors", Null, AnalyzeAll(Self))

CallGetTopDrivers(n) ==
    Finish("get_top_drivers", n, TopDrivers(Self, n))

CallGetImprovementOpportunities ==
    Finish("get_improvement_opportunities", Null, ImprovementOpportunities(Self))

CallGetRepPerformanceTiers ==
    Finish("get_rep_performance_tiers", Null, RepPerformanceTiers(Self))

CallGenerateExecutiveSummary ==
    Finish("generate_executive_summary", Null, ExecutiveSummary(Self))

CallGetActionableOutputs ==
    Finish("get_actionable_outputs", Null, ActionableOutputs(Self))

Next ==
    \/ \E f \in FactorSet : CallAnalyzeFactorImpact(f)
    \/ CallAnalyzeAllFactors
    \/ \E n \in 0..MaxTopN : CallGetTopDrivers(n)
    \/ CallGetImprovementOpportunities
    \/ CallGetRepPerformanceTiers
    \/ CallGenerateExecutiveSummary
    \/ CallGetActionableOutputs

Spec == Init /\ [][Next]_vars

(***************************************************************************)
(* The functions of metrics.py, called on small frames of dated deals.     *)
(***************************************************************************)
\* deals of three reps: closing dates on the two window edges (day 70 and
\* day 10 for a rep whose latest deal is on day 100), a cycle of 0 days
DealPool ==
    << Block(5, 0, "West", "Tech", "Inbound", "Demo", "r3",  50,  50, 10),
       Block(5, 5, "East", "Tech", "Inbound", "Demo", "r2",  50, 200,  5),
       Block(3, 2, "East", "Tech", "Inbound", "Demo", "r1",  30, 100, 10),
       Block(2, 1, "West", "Tech", "Inbound", "Demo", "r1",  40,  60,  0),
       Block(4, 0, "West", "Tech", "Inbound", "Demo", "r1",  40,  10, 20),
       Block(2, 0, "East", "Tech", "Inbound", "Demo", "r1",  20,  70,  4),
       Block(3, 0, "West", "Tech", "Inbound", "Demo", "r2",  60, 150,  0),
       Block(2, 1, "East", "Tech", "Inbound", "Demo", "r1",  20, 100,  5) >>

MaxDealBlocks == 4

RepIds == {"r1", "r2", "r3"}

DealFrames ==
    { SelectSeq(DealPool, LAMBDA b : \E i \in S : DealPool[i] = b) :
        S \in { T \in SUBSET (1..Len(DealPool)) :
                  Cardinality(T) <= MaxDealBlocks } }

\* a frame of deals, possibly without rows, nothing called yet
MetricsInit ==
    /\ df \in DealFrames
    /\ has_velocity = FALSE
    /\ results = <<>>
    /\ factor_ranking = NoAttribute
    /\ ret = [op |-> "load", arg |-> Null, raised |-> FALSE, value |-> Null]

CallCalculateDealVelocityScore ==
    \E out \in {DealVelocityScore(df)} :
        /\ df' = out.df
        /\ ret' = [op |-> "calculate_deal_velocity_score", arg |-> Null,
                   raised |-> FALSE, value |-> out.value]
        /\ UNCHANGED <<has_velocity, results, factor_ranking>>

CallCalculateRepMomentumIndex(rep_id) ==
    /\ ret' = [op |-> "calculate_rep_momentum_index", arg |-> rep_id,
               raised |-> FALSE, value |-> RepMomentumIndex(df, rep_id, 30, 90)]
    /\ UNCHANGED <<df, has_velocity, results, factor_ranking>>

CallCalculateAllRepMomentum ==
    \E out \in AllRepMomentum(df) :
        /\ ret' = [op |-> "calculate_all_rep_momentum", arg |-> Null,
                   raised |-> out.raised, value |-> out.value]
        /\ UNCHANGED <<df, has_velocity, results, factor_ranking>>

MetricsNext ==
    \/ CallCalculateDealVelocityScore
    \/ \E rep_id \in RepIds : CallCalculateRepMomentumIndex(rep_id)
    \/ CallCalculateAllRepMomentum

MetricsSpec == MetricsInit /\ [][MetricsNext]_vars

(***************************************************************************)
(* calculate_rep_momentum_index called with windows of the caller's        *)
(* choice.                                                                 *)
(***************************************************************************)
\* (recent_days, historical_days): the defaults, and other lengths
WindowPairs == {<<30, 90>>, <<90, 30>>, <<30, 30>>, <<10, 40>>}

CallCalculateRepMomentumIndexOver(rep_id, recent_days, historical_days) ==
    /\ ret' = [op |-> "calculate_rep_momentum_index",
               arg |-> [rep_id |-> rep_id, recent_days |-> recent_days,
                        historical_days |-> historical_days],
               raised |-> FALSE,
               value |-> RepMomentumIndex(df, rep_id, recent_days,
                                          historical_days)]
    /\ UNCHANGED <<df, has_velocity, results, factor_ranking>>

WindowNext ==
    \E rep_id \in RepIds, w \in WindowPairs :
        CallCalculateRepMomentumIndexOver(rep_id, w[1], w[2])

WindowSpec == MetricsInit /\ [][WindowNext]_vars

(***************************************************************************)
(* analyze_factor_impact on frames whose region table lies exactly on a    *)
(* threshold of the effect size, or has categories of equal win rate.      *)
(***************************************************************************)
\* South 33/52 ahead of East 33/52 (equal win rates, the later label first);
\* East 33/52 with West 19/52 has V = 0.25, East 35/60 with West 25/60 has
\* V = 0.15; West 19/52 and South 19/52 share the lowest rate
TablePool ==
    << Block(52, 33, "South", "Tech",   "Inbound", "Demo",     "r2", 520, 300, 10),
       Block(52, 33, "East",  "Tech",   "Inbound", "Demo",     "r1", 520, 300, 10),
       Block(52, 19, "West",  "Tech",   "Inbound", "Proposal", "r1", 520, 300, 10),
       Block(60, 35, "East",  "Retail", "Inbound", "Demo",     "r2", 600, 300, 10),
       Block(60, 25, "West",  "Retail", Null,      "Proposal", "r3", 600, 300, 10),
       Block(52, 19, "South", "Retail", "Inbound", "Proposal", "r3", 520, 300, 10) >>

MaxTableBlocks == 3

TableFrames ==
    { SelectSeq(TablePool, LAMBDA b : \E i \in S : TablePool[i] = b) :
        S \in { T \in SUBSET (1..Len(TablePool)) :
                  Cardinality(T) >= 1 /\ Cardinality(T) <= MaxTableBlocks } }

\* WinRateDriverAnalyzer(df)
TableInit ==
    /\ df \in TableFrames
    /\ has_velocity = FALSE
    /\ results = <<>>
    /\ factor_ranking = NoAttribute
    /\ ret = [op |-> "__init__", arg |-> Null, raised |-> FALSE, value |-> Null,
              analyses |-> <<>>]

\* analyze_factor_impact(f), computed on the frame
AnalyzeFactorImpactOfFrame(f) ==
    Finish("analyze_factor_impact", f,
           Returned([Self EXCEPT !.analyses = <<f>>], AnalyzeFactorImpact(df, f)))

TableNext == \E f \in FactorSet : AnalyzeFactorImpactOfFrame(f)

TableSpec == TableInit /\ [][TableNext]_vars

(***************************************************************************)
(* The analyzer over frames of many reps.                                  *)
(***************************************************************************)
\* WinRateDriverAnalyzer(df)
RepInit ==
    /\ df \in RepFrames
    /\ has_velocity = FALSE
    /\ results = <<>>
    /\ factor_ranking = NoAttribute
    /\ ret = [op |-> "__init__", arg |-> Null, raised |-> FALSE, value |-> Null,
              analyses |-> <<>>]

RepNext ==
    \/ CallGetImprovementOpportunities
    \/ CallGetRepPerformanceTiers
    \/ CallGenerateExecutiveSummary

RepSpec == RepInit /\ [][RepNext]_vars

(***************************************************************************)
(* eda.py: segment statistics, the quarterly trend and the business        *)
(* insights drawn from them.                                               *)
(***************************************************************************)
\* df['closed_date'].dt.to_period('Q'), of a day number
ClosedQuarter(b) == b.closed_date \div 90

\* the groups of df.groupby('closed_quarter'), in ascending order
Quarters(d) ==
    LET RECURSIVE Ascending(_)
        Ascending(S) ==
            IF S = {} THEN <<>>
            ELSE Let(CHOOSE q \in S : \A r \in S : q <= r, LAMBDA q :
                     <<q>> \o Ascending(S \ {q}))
    IN  Ascending({ClosedQuarter(d[i]) : i \in 1..Len(d)})

\* quarterly['win_rate']: the mean of is_won of each quarter, times 100
QuarterlyWinRates(d) ==
    Let(Quarters(d), LAMBDA qs :
        LET rate(k) ==
                LET N(b) == IF ClosedQuarter(b) = qs[k] THEN b.n ELSE 0
                    W(b) == IF ClosedQuarter(b) = qs[k] THEN b.won ELSE 0
                IN  Frac[100 * Total(W, d), Total(N, d)]
        IN  SeqTo(rate, Len(qs)))

\* the mean of the differences of the last four quarterly rates is below 0:
\* the differences add up to the last rate less the first of the four, and
\* the mean of no difference is NaN, which is not below 0
TrendDirection(rates) ==
    Let(Len(rates) - Min(4, Len(rates)) + 1, LAMBDA first :
        IF Len(rates) > 1 /\ FracLt(rates[Len(rates)], rates[first])
        THEN "declining" ELSE "improving")

\* analyze_win_rate_trends(df): iloc[-1] of an empty Series raises
\* IndexError; previous_win_rate is None (here NaN) with a single quarter
WinRateTrends(d) ==
    Let(QuarterlyWinRates(d), LAMBDA rates :
        IF Len(rates) = 0 THEN [raised |-> TRUE, value |-> "IndexError"]
        ELSE [raised |-> FALSE,
              value |-> [current_win_rate |-> rates[Len(rates)],
                         previous_win_rate |->
                             IF Len(rates) > 1 THEN rates[Len(rates) - 1]
                             ELSE NaN,
                         trend_direction |-> TrendDirection(rates)]])

\* one row of the frame analyze_segment_performance builds: the counts of
\* category c, win_rate and vs_company_avg rounded, in tenths of a point
SegmentRow(d, segment, c) ==
    LET N(b) == IF b[segment] = c THEN b.n ELSE 0
        W(b) == IF b[segment] = c THEN b.won ELSE 0
        A(b) == IF b[segment] = c THEN b.deal_amount ELSE 0
        C(b) == IF b[segment] = c THEN b.n * b.sales_cycle_days ELSE 0
    IN  Let(Total(N, d), LAMBDA total :
        Let(RoundTenths[Frac[100 * Total(W, d), total]], LAMBDA win_rate :
            [segment |-> c,
             total_deals |-> total,
             won_deals |-> Total(W, d),
             win_rate |-> win_rate,
             avg_deal_size |-> RoundTenths[Frac[Total(A, d), 10 * total]],
             total_revenue |-> Total(A, d),
             avg_cycle_days |-> RoundTenths[Frac[Total(C, d), total]],
             vs_company_avg |->
                 RoundTenths[FracSub[Frac[win_rate, 10], OverallWinRate(d)]]]))

\* the rows in the order of the groups, before sort_values
SegmentRows(d, segment) ==
    Let(Categories(d, segment), LAMBDA cs :
        LET row(i) == SegmentRow(d, segment, cs[i])
        IN  SeqTo(row, Len(cs)))

\* stats.sort_values('win_rate', ascending=False): the orders the sort may
\* give, rows of equal win_rate in any order
SortByWinRate(rows) ==
    {p \in {[i \in 1..Len(rows) |-> rows[f[i]]] :
              f \in Permutations(1..Len(rows))} :
        \A i \in 1..(Len(rows) - 1) : p[i].win_rate >= p[i + 1].win_rate}

\* analyze_segment_performance(df, segment)
SegmentPerformance(d, segment) == SortByWinRate(SegmentRows(d, segment))

Insight(title, segment, names) ==
    [title |-> title, segment |-> segment, names |-> names]

\* Insight 1: the decline, when the trend is declining and previous is truthy
TrendInsight(trends) ==
    IF /\ trends.trend_direction = "declining"
       /\ trends.previous_win_rate # NaN
       /\ trends.previous_win_rate.num # 0
    THEN <<Insight("Win Rate Decline Confirmed", Null, <<>>)>>
    ELSE <<>>

\* Insight 2: if best_rate - worst_rate > 10, naming the first and the last
\* region of region_stats
RegionInsight(region_stats) ==
    Let(region_stats[1], LAMBDA best :
    Let(region_stats[Len(region_stats)], LAMBDA worst :
        IF best.win_rate - worst.win_rate > 100
        THEN <<Insight("Regional Performance Gap Identified", "region",
                       <<best.segment, worst.segment>>)>>
        ELSE <<>>))

\* Insight 3: appended always, naming the first lead source of source_stats
SourceInsight(source_stats) ==
    <<Insight("Highest Converting Lead Source Identified", "lead_source",
              <<source_stats[1].segment>>)>>

\* if deals < MIN_DEALS_FOR_INSIGHT: continue
SkipsProduct(deals) == deals < MIN_DEALS_FOR_INSIGHT

\* if vs_avg < -8 and deals > 500
Underperforming(row) == row.vs_company_avg < -80 /\ row.total_deals > 500

\* Insight 4: the first product of product_stats that is not skipped and is
\* underperforming; break after it
ProductInsight(product_stats) ==
    LET RECURSIVE From(_)
        From(k) ==
            IF k > Len(product_stats) THEN <<>>
            ELSE IF SkipsProduct(product_stats[k].total_deals) THEN From(k + 1)
            ELSE IF Underperforming(product_stats[k])
                 THEN <<Insight("Product Underperforming", "product_type",
                                <<product_stats[k].segment>>)>>
                 ELSE From(k + 1)
    IN  From(1)

\* the mean of sales_cycle_days over the deals with is_won = w; NaN when
\* there is none
MeanCycleDays(d, w) ==
    LET K(b) == IF w = 1 THEN b.won ELSE b.n - b.won
        C(b) == K(b) * b.sales_cycle_days
    IN  IF Total(K, d) = 0 THEN NaN ELSE Frac[Total(C, d), Total(K, d)]

\* Insight 5: if avg_lost_cycle > avg_won_cycle * 1.2; a comparison with NaN
\* is false
CycleInsight(d) ==
    Let(MeanCycleDays(d, 1), LAMBDA avg_won_cycle :
    Let(MeanCycleDays(d, 0), LAMBDA avg_lost_cycle :
        IF /\ avg_won_cycle # NaN
           /\ avg_lost_cycle # NaN
           /\ FracLt(FracMul[avg_won_cycle, Frac[6, 5]], avg_lost_cycle)
        THEN <<Insight("Slow Deals More Likely to Lose", Null, <<>>)>>
        ELSE <<>>))

\* generate_business_insights(df): the outcomes it may have, one for each
\* order the three sorts may give; index[0] of a frame without groups raises
\* IndexError
BusinessInsights(d) ==
    Let(WinRateTrends(d), LAMBDA trends :
        IF trends.raised THEN {trends}
        ELSE IF Categories(d, "region") = <<>>
                \/ Categories(d, "lead_source") = <<>>
             THEN {[raised |-> TRUE, value |-> "IndexError"]}
             ELSE {[raised |-> FALSE,
                    value |-> TrendInsight(trends.value)
                              \o RegionInsight(region_stats)
                              \o SourceInsight(source_stats)
                              \o ProductInsight(product_stats)
                              \o CycleInsight(d)] :
                      region_stats \in SegmentPerformance(d, "region"),
                      source_stats \in SegmentPerformance(d, "lead_source"),
                      product_stats \in SegmentPerformance(d, "product_type")})

Product(b, product_type) == [b EXCEPT !.product_type = product_type]

InsightPool ==
    << Product(Block(600, 120, "East",  "Tech",    "Inbound",  "Demo",     "r1", 6000, 100, 40), "Enterprise"),
       Product(Block(600, 360, "West",  "Tech",    "Outbound", "Demo",     "r1", 6000, 200, 20), "Core"),
       Product(Block( 10,  10, "South", "Retail",  "Partner",  "Demo",     "r2",  100, 290, 10), "Core"),
       Product(Block(100,  50, "South", "Retail",  "Partner",  "Proposal", "r2", 1000, 290, 20), "Partner"),
       Product(Block(120,  30, "West",  "Finance", "Outbound", "Proposal", "r2", 1200,  10, 30), "Enterprise"),
       Product(Block( 50,  30, Null,    "Finance", Null,       "Proposal", "r3",  500, 200, 20), "Retail"),
       Product(Block( 99,   0, "East",  "Finance", "Inbound",  "Demo",     "r3",  990, 290, 60), "Retail") >>

MaxInsightBlocks == 4

InsightFrames ==
    { SelectSeq(InsightPool, LAMBDA b : \E i \in S : InsightPool[i] = b) :
        S \in { T \in SUBSET (1..Len(InsightPool)) :
                  Cardinality(T) <= MaxInsightBlocks } }

\* a frame of deals, possibly without rows, nothing called yet
InsightInit ==
    /\ df \in InsightFrames
    /\ has_velocity = FALSE
    /\ results = <<>>
    /\ factor_ranking = NoAttribute
    /\ ret = [op |-> "load", arg |-> Null, raised |-> FALSE, value |-> Null]

CallAnalyzeWinRateTrends ==
    \E out \in {WinRateTrends(df)} :
        /\ ret' = [op |-> "analyze_win_rate_trends", arg |-> Null,
                   raised |-> out.raised, value |-> out.value]
        /\ UNCHANGED <<df, has_velocity, results, factor_ranking>>

CallAnalyzeSegmentPerformance(segment) ==
    \E out \in SegmentPerformance(df, segment) :
        /\ ret' = [op |-> "analyze_segment_performance", arg |-> segment,
                   raised |-> FALSE, value |-> out]
        /\ UNCHANGED <<df, has_velocity, results, factor_ranking>>

CallGenerateBusinessInsights ==
    \E out \in BusinessInsights(df) :
        /\ ret' = [op |-> "generate_business_insights", arg |-> Null,
                   raised |-> out.raised, value |-> out.value]
        /\ UNCHANGED <<df, has_velocity, results, factor_ranking>>

InsightNext ==
    \/ CallAnalyzeWinRateTrends
    \/ \E segment \in {"region", "lead_source", "product_type"} :
           CallAnalyzeSegmentPerformance(segment)
    \/ CallGenerateBusinessInsights

InsightSpec == InsightInit /\ [][InsightNext]_vars


(***************************************************************************)
(* Properties.  They are stated over the rows of the frame, by counting,   *)
(* and not through the operators the calls are built from.                 *)
(***************************************************************************)
\* rows with a value of factor f, and those of them with is_won = w
RowsWithFactor(d, f) ==
    LET K(b) == IF b[f] = Null THEN 0 ELSE b.n IN Total(K, d)
RowsWithOutcome(d, f, w) ==
    LET K(b) == IF b[f] = Null THEN 0
                ELSE IF w = 1 THEN b.won ELSE b.n - b.won
    IN  Total(K, d)

\* rows of category c of factor f, and the won ones among them
CategoryRows(d, f, c) == LET K(b) == IF b[f] = c THEN b.n ELSE 0 IN Total(K, d)
CategoryWins(d, f, c) == LET K(b) == IF b[f] = c THEN b.won ELSE 0 IN Total(K, d)

\* the categories of factor f and the outcomes that occur with one
CategoriesOf(d, f) == {d[i][f] : i \in 1..Len(d)} \ {Null}
OutcomesOf(d, f) == {w \in {0, 1} : RowsWithOutcome(d, f, w) > 0}

\* the shape of the contingency table of factor f
ShapeRows(d, f) == Cardinality(CategoriesOf(d, f))
ShapeCols(d, f) == Cardinality(OutcomesOf(d, f))
ShapeDof(d, f) == (ShapeRows(d, f) - 1) * (ShapeCols(d, f) - 1)

\* the win rate of category c less the overall win rate is below k points:
\* 100 won_c / rows_c - 100 W / N < k, cleared of its denominators
DeviationBelow(d, f, c, k) ==
    100 * (CategoryWins(d, f, c) * DealCount(d)
           - WonCount(d) * CategoryRows(d, f, c))
        < k * CategoryRows(d, f, c) * DealCount(d)

\* |deviation| / 100 * rows_c = |won_c - rows_c W / N|, as a numerator over N
ShortfallTimesN(d, f, c) ==
    Abs(CategoryWins(d, f, c) * DealCount(d)
        - WonCount(d) * CategoryRows(d, f, c))

\* the sum of F(x) over the elements x of the finite set S, rationals
RatSumOver(F(_), S) ==
    LET RECURSIVE Go(_)
        Go(T) == IF T = {} THEN RatZero
                 ELSE Let(CHOOSE x \in T : TRUE, LAMBDA x :
                          RatAdd[Go(T \ {x}), F(x)])
    IN  Go(S)

\* n O - R C for the cell of category c and outcome w: n times the distance
\* of the observed count from the expected one, in absolute value
CellExcess(d, f, c, w) ==
    Abs(RowsWithFactor(d, f)
            * (IF w = 1 THEN CategoryWins(d, f, c)
               ELSE CategoryRows(d, f, c) - CategoryWins(d, f, c))
        - CategoryRows(d, f, c) * RowsWithOutcome(d, f, w))

\* n R C for that cell: n squared times the expected count
CellWeight(d, f, c, w) ==
    RowsWithFactor(d, f) * CategoryRows(d, f, c) * RowsWithOutcome(d, f, w)

\* Pearson's statistic: the sum over the cells of (O - E)^2 / E with
\* E = R C / n, which is (n O - R C)^2 / (n R C)
PearsonStatistic(d, f) ==
    LET term(cell) ==
            Let(BigFromInt[CellExcess(d, f, cell[1], cell[2])], LAMBDA x :
                [num |-> BigMul[x, x],
                 den |-> BigFromInt[CellWeight(d, f, cell[1], cell[2])]])
    IN  RatSumOver(term, CategoriesOf(d, f) \X OutcomesOf(d, f))

\* the statistic with Yates' continuity correction: |O - E| less 1/2, and 0
\* when that is negative, in place of O - E
YatesStatistic(d, f) ==
    LET term(cell) ==
            LET twice == 2 * CellExcess(d, f, cell[1], cell[2])
                             - RowsWithFactor(d, f)
            IN  Let(BigFromInt[IF twice > 0 THEN twice ELSE 0], LAMBDA x :
                    [num |-> BigMul[x, x],
                     den |-> BigFromInt[4 * CellWeight(d, f, cell[1], cell[2])]])
    IN  RatSumOver(term, CategoriesOf(d, f) \X OutcomesOf(d, f))

\* the last call was analyze_factor_impact and it returned a result
Analyzed == ret.op = "analyze_factor_impact" /\ ~ret.raised /\ ~ret.value.none

\* C1: analyze_factor_impact(factor) returns None when fewer than 100 rows
\* have a value of the factor, and a result when 100 or more do.
C1_GateAtHundredRows ==
    ret.op = "analyze_factor_impact" =>
        /\ ~ret.raised
        /\ ret.value.none <=> RowsWithFactor(df, ret.arg) < 100

\* a factor with exactly 100 rows got a result
C1_ExactlyHundredRows ==
    /\ Analyzed
    /\ RowsWithFactor(df, ret.arg) = 100

InsightMethods ==
    {"analyze_all_factors", "get_top_drivers", "get_improvement_opportunities",
     "get_rep_performance_tiers", "generate_executive_summary",
     "get_actionable_outputs"}

\* C2: no method raises for want of data: over a frame whose sales_rep_id
\* table has fewer than 100 rows each of analyze_all_factors,
\* get_top_drivers, get_improvement_opportunities,
\* get_rep_performance_tiers, generate_executive_summary and
\* get_actionable_outputs completes.
C2_ThinRepTableNeverRaises ==
    (ret.op \in InsightMethods /\ RowsWithFactor(df, "sales_rep_id") < 100)
        => ~ret.raised

\* C3, as stated: the chi_square of every result is Pearson's statistic and
\* its degrees_of_freedom are (rows - 1)(cols - 1), whatever the table's
\* shape, a 2x2 table included.
C3_PearsonForEveryShape ==
    Analyzed =>
        /\ ret.value.degrees_of_freedom = ShapeDof(df, ret.arg)
        /\ RatEq(ret.value.chi_square, PearsonStatistic(df, ret.arg))

\* C3, amended: the degrees_of_freedom of every result are
\* (rows - 1)(cols - 1); its chi_square is Pearson's statistic unless that
\* makes one degree of freedom (a 2x2 table), and then it is the statistic
\* with Yates' continuity correction.
C3_PearsonUnlessOneDegree ==
    Analyzed =>
        /\ ret.value.degrees_of_freedom = ShapeDof(df, ret.arg)
        /\ RatEq(ret.value.chi_square,
                 IF ShapeDof(df, ret.arg) = 1 THEN YatesStatistic(df, ret.arg)
                 ELSE PearsonStatistic(df, ret.arg))

\* a result over a 2x2 table whose chi_square is not Pearson's statistic
C3_TwoByTwoCorrected ==
    /\ Analyzed
    /\ ShapeRows(df, ret.arg) = 2 /\ ShapeCols(df, ret.arg) = 2
    /\ ~RatEq(ret.value.chi_square, PearsonStatistic(df, ret.arg))

\* C4: a result over a factor with one category, or over a frame whose deals
\* are all won or all lost (min(rows, cols) - 1 <= 0), has Cramer's V = 0,
\* and the call does not raise or divide by zero.
C4_DegenerateTableHasZeroV ==
    (/\ ret.op = "analyze_factor_impact"
     /\ RowsWithFactor(df, ret.arg) >= 100
     /\ Min(ShapeRows(df, ret.arg), ShapeCols(df, ret.arg)) - 1 <= 0)
        => /\ ~ret.raised
           /\ ~ret.value.none
           /\ ret.value.cramers_v_sq = RatZero

\* a result over a factor with exactly one category, in a frame with won and
\* lost deals
C4_SingleCategory ==
    /\ Analyzed
    /\ ShapeRows(df, ret.arg) = 1 /\ ShapeCols(df, ret.arg) = 2

AnalyzedFactors(d) == {f \in FactorSet : RowsWithFactor(d, f) >= 100}

\* Cramer's V squared of factor f, from the counts: Pearson's or Yates'
\* statistic over n (min(rows, cols) - 1), and 0 for a table with one row or
\* one column
VSquaredOf(d, f) ==
    IF ShapeDof(d, f) = 0 THEN RatZero
    ELSE RatDivInt[IF ShapeDof(d, f) = 1 THEN YatesStatistic(d, f)
                   ELSE PearsonStatistic(d, f),
                   RowsWithFactor(d, f)
                       * (Min(ShapeRows(d, f), ShapeCols(d, f)) - 1)]

\* r lists every analyzed factor once, by non-increasing Cramer's V
IsRanking(r, d) ==
    /\ Len(r) = Cardinality(AnalyzedFactors(d))
    /\ {r[i] : i \in 1..Len(r)} = AnalyzedFactors(d)
    /\ \A i \in 1..(Len(r) - 1) :
           RatLe(VSquaredOf(d, r[i + 1]), VSquaredOf(d, r[i]))

\* C6: once analyze_all_factors has run, factor_ranking lists the analyzed
\* factors by non-increasing Cramer's V, and no later call on the analyzer,
\* analyze_all_factors again included, changes it, factors of equal V
\* keeping their relative order.
C6_RankingSortedAndStable ==
    /\ [](factor_ranking # NoAttribute => IsRanking(factor_ranking, df))
    /\ [][factor_ranking # NoAttribute => factor_ranking' = factor_ranking]_vars

\* analyze_all_factors has ranked at least three factors, two of them with
\* the same positive Cramer's V
C6_RankedWithTie ==
    /\ ret.op = "analyze_all_factors"
    /\ factor_ranking # NoAttribute
    /\ Len(factor_ranking) >= 3
    /\ \E i \in 1..(Len(factor_ranking) - 1) :
           /\ RatLt(RatZero, VSquaredOf(df, factor_ranking[i]))
           /\ RatEq(VSquaredOf(df, factor_ranking[i]),
                    VSquaredOf(df, factor_ranking[i + 1]))

\* the (factor, category) pairs that call for an opportunity: an analyzed
\* factor other than sales_rep_id, a deviation below -5 points, more than
\* 100 deals
OpportunityPairs(d) ==
    {p \in (AnalyzedFactors(d) \ {"sales_rep_id"})
             \X {LabelOrder[i] : i \in 1..Len(LabelOrder)} :
        /\ CategoryRows(d, p[1], p[2]) > 100
        /\ DeviationBelow(d, p[1], p[2], -5)}

\* the last call was get_improvement_opportunities
Advised == ret.op = "get_improvement_opportunities" /\ ~ret.raised

\* C7: get_improvement_opportunities returns one opportunity for each pair
\* of an analyzed factor other than sales_rep_id and a category of it with a
\* deviation below -5 points and more than 100 deals, and nothing else.
C7_ExactlyTheOpportunityPairs ==
    Advised =>
        /\ Len(ret.value) = Cardinality(OpportunityPairs(df))
        /\ {<<ret.value[i].factor, ret.value[i].category>> :
               i \in 1..Len(ret.value)} = OpportunityPairs(df)

\* opportunities were returned, and none for a category of exactly 100 deals
\* that is more than 5 points below the average
C7_FloorCategoryLeftOut ==
    /\ Advised
    /\ ret.value # <<>>
    /\ \E f \in AnalyzedFactors(df) \ {"sales_rep_id"} :
       \E c \in CategoriesOf(df, f) :
           /\ CategoryRows(df, f, c) = 100
           /\ DeviationBelow(df, f, c, -5)
           /\ \A i \in 1..Len(ret.value) :
                  <<ret.value[i].factor, ret.value[i].category>> # <<f, c>>

\* C8: the priority of an opportunity is 'High' if and only if the deviation
\* of its category is below -10 points, and 'Medium' otherwise.
C8_HighIffBelowMinusTen ==
    Advised =>
        \A i \in 1..Len(ret.value) :
            ret.value[i].priority =
                IF DeviationBelow(df, ret.value[i].factor,
                                  ret.value[i].category, -10)
                THEN "High" ELSE "Medium"

\* an opportunity exactly 10 points below the average, which is 'Medium'
C8_ExactlyMinusTen ==
    /\ Advised
    /\ \E i \in 1..Len(ret.value) :
           /\ ~DeviationBelow(df, ret.value[i].factor, ret.value[i].category, -10)
           /\ ShortfallTimesN(df, ret.value[i].factor, ret.value[i].category) * 10
                  = CategoryRows(df, ret.value[i].factor, ret.value[i].category)
                        * DealCount(df)

\* C9: the opportunities come by non-increasing potential_additional_wins,
\* whatever their priority.
C9_SortedByWins ==
    Advised =>
        \A i \in 1..(Len(ret.value) - 1) :
            ret.value[i].potential_additional_wins
                >= ret.value[i + 1].potential_additional_wins

\* a 'Medium' opportunity with more wins to gain comes before a 'High' one
C9_MediumBeforeHigh ==
    /\ Advised
    /\ \E i \in 1..(Len(ret.value) - 1) :
           /\ ret.value[i].priority = "Medium"
           /\ ret.value[i + 1].priority = "High"
           /\ ret.value[i].potential_additional_wins
                  > ret.value[i + 1].potential_additional_wins

\* C10: the potential_additional_wins of an opportunity are
\* floor(|deviation| / 100 * deal count) for the deviation and the deal count
\* of its category, the deviation not rounded.
C10_WinsAreTheFloor ==
    Advised =>
        \A i \in 1..Len(ret.value) :
            ret.value[i].potential_additional_wins =
                ShortfallTimesN(df, ret.value[i].factor, ret.value[i].category)
                    \div DealCount(df)

\* an opportunity whose |deviation| / 100 * deal count has a fractional part
\* of a half or more
C10_FractionDropped ==
    /\ Advised
    /\ \E i \in 1..Len(ret.value) :
           2 * (ShortfallTimesN(df, ret.value[i].factor, ret.value[i].category)
                    % DealCount(df)) >= DealCount(df)

\* the tier the win rate of rep r calls for, from the row counts
TierByCounts(d, r) ==
    IF ~DeviationBelow(d, "sales_rep_id", r, 10) THEN "top_performers"
    ELSE IF ~DeviationBelow(d, "sales_rep_id", r, 0) THEN "solid_performers"
    ELSE IF ~DeviationBelow(d, "sales_rep_id", r, -10) THEN "needs_improvement"
    ELSE "at_risk"

\* the last call was get_rep_performance_tiers and it returned
Tiered == ret.op = "get_rep_performance_tiers" /\ ~ret.raised

VelocityScored == ret.op = "calculate_deal_velocity_score" /\ ~ret.raised

\* the days a row's amount is divided by
DaysOrOne(b) == IF b.sales_cycle_days = 0 THEN 1 ELSE b.sales_cycle_days

\* C12: calculate_deal_velocity_score returns, for each row, deal_amount
\* divided by sales_cycle_days, a row of 0 days being divided by 1 (its score
\* is its deal_amount); the call leaves the frame it was given as it was.
C12_AmountOverDaysZeroAsOne ==
    /\ [](VelocityScored =>
            /\ Len(ret.value) = Len(df)
            /\ \A i \in 1..Len(df) :
                 /\ ret.value[i].den > 0
                 /\ ret.value[i].num * df[i].n * DaysOrOne(df[i])
                      = df[i].deal_amount * ret.value[i].den)
    /\ [][ret'.op = "calculate_deal_velocity_score" => df' = df]_vars

\* a score was returned for rows of 0 days: their deal_amount
C12_ZeroDayRows ==
    /\ VelocityScored
    /\ \E i \in 1..Len(df) :
         /\ df[i].sales_cycle_days = 0
         /\ df[i].deal_amount = 20 * df[i].n
         /\ ret.value[i] = FracInt(20)


MomentumReturned == ret.op = "calculate_rep_momentum_index" /\ ~ret.raised

\* the rows of rep in d
RepRows(d, rep) ==
    LET K(b) == IF b.sales_rep_id = rep THEN b.n ELSE 0 IN Total(K, d)

\* the latest closed_date among the rows of rep, who has rows in d
RepLatest(d, rep) ==
    CHOOSE m \in {d[i].closed_date : i \in 1..Len(d)} :
        /\ \E i \in 1..Len(d) : d[i].sales_rep_id = rep /\ d[i].closed_date = m
        /\ \A i \in 1..Len(d) :
             d[i].sales_rep_id = rep => d[i].closed_date <= m

\* the rows of rep closed no more than days before the rep's latest one
WindowRows(d, rep, days) ==
    LET K(b) == IF b.sales_rep_id = rep
                   /\ b.closed_date >= RepLatest(d, rep) - days
                THEN b.n ELSE 0
    IN  Total(K, d)

\* the won rows among them
WindowWins(d, rep, days) ==
    LET K(b) == IF b.sales_rep_id = rep
                   /\ b.closed_date >= RepLatest(d, rep) - days
                THEN b.won ELSE 0
    IN  Total(K, d)

\* the momentum of rep is not computable in d
NotComputable(d, rep) ==
    \/ RepRows(d, rep) = 0
    \/ WindowRows(d, rep, 30) < 3
    \/ WindowRows(d, rep, 90) < 5
    \/ WindowWins(d, rep, 90) = 0

\* v is the recent win rate of rep divided by the historical one
IsWinRateRatio(v, d, rep) ==
    /\ v.den > 0
    /\ v.num * WindowRows(d, rep, 30) * WindowWins(d, rep, 90)
         = v.den * WindowWins(d, rep, 30) * WindowRows(d, rep, 90)

\* C13: calculate_rep_momentum_index returns NaN when the rep has no deals,
\* fewer than 3 deals in the recent window, fewer than 5 deals in the
\* historical window or a historical win rate of 0, and otherwise the recent
\* win rate divided by the historical win rate.
C13_NaNOrRatioOfWinRates ==
    MomentumReturned =>
        IF NotComputable(df, ret.arg) THEN ret.value = NaN
        ELSE IsWinRateRatio(ret.value, df, ret.arg)

\* 2 recent and 6 historical deals: NaN was returned
C13_TwoRecentSixHistorical ==
    /\ MomentumReturned
    /\ WindowRows(df, ret.arg, 30) = 2
    /\ WindowRows(df, ret.arg, 90) = 6
    /\ ret.value = NaN


\* the deals of rep are the same in d1 and d2
SameDealsOf(rep, d1, d2) ==
    SelectSeq(d1, LAMBDA b : b.sales_rep_id = rep)
        = SelectSeq(d2, LAMBDA b : b.sales_rep_id = rep)

\* C14: a rep's momentum index depends only on the rep's own deals: on every
\* frame in which the rep has the same deals, whatever the deals of the other
\* reps and however late they closed, the index is the one returned.
C14_OwnDealsOnly ==
    MomentumReturned =>
        \A d2 \in DealFrames :
            SameDealsOf(ret.arg, df, d2) =>
                RepMomentumIndex(d2, ret.arg, 30, 90) = ret.value

\* a computable momentum was returned for a rep while another rep has a deal
\* closed after the rep's latest one
C14_LaterDealOfAnotherRep ==
    /\ MomentumReturned
    /\ ret.value # NaN
    /\ \E i \in 1..Len(df) :
         /\ df[i].sales_rep_id # ret.arg
         /\ df[i].closed_date > RepLatest(df, ret.arg)


AllMomentumReturned == ret.op = "calculate_all_rep_momentum" /\ ~ret.raised

\* the reps with a deal in d
RepsOf(d) == {d[i].sales_rep_id : i \in 1..Len(d)}

\* a common multiple of the row counts of the blocks of d
RowsMultiple(d) ==
    LET RECURSIVE Go(_)
        Go(k) == IF k = 0 THEN 1 ELSE Go(k - 1) * d[k].n
    IN  Go(Len(d))

\* RowsMultiple(d) times the deal_amount of the won rows of rep
WonAmountTimesMultiple(d, rep) ==
    LET K(b) == IF b.sales_rep_id = rep
                THEN b.won * b.deal_amount * (RowsMultiple(d) \div b.n) ELSE 0
    IN  Total(K, d)

\* row carries the momentum, deal count, win rate and won revenue of its rep
IsRowOfRep(row, d) ==
    /\ IF NotComputable(d, row.sales_rep_id) THEN row.momentum_index = NaN
       ELSE IsWinRateRatio(row.momentum_index, d, row.sales_rep_id)
    /\ row.total_deals = RepRows(d, row.sales_rep_id)
    /\ row.win_rate.den > 0
    /\ row.win_rate.num * RepRows(d, row.sales_rep_id)
         = LET K(b) == IF b.sales_rep_id = row.sales_rep_id THEN b.won ELSE 0
           IN  100 * Total(K, d) * row.win_rate.den
    /\ row.total_revenue.den > 0
    /\ row.total_revenue.num * RowsMultiple(d)
         = WonAmountTimesMultiple(d, row.sales_rep_id) * row.total_revenue.den

\* C15: calculate_all_rep_momentum returns one row for each rep of the frame,
\* with the rep's momentum index, deal count, win rate and won revenue; the
\* rows of computable momentum come first, in non-increasing order of
\* momentum, the rows of NaN momentum after them.
C15_OneRowPerRepByMomentum ==
    ret.op = "calculate_all_rep_momentum" =>
        /\ ~ret.raised
        /\ {ret.value[i].sales_rep_id : i \in 1..Len(ret.value)} = RepsOf(df)
        /\ Len(ret.value) = Cardinality(RepsOf(df))
        /\ \A i \in 1..Len(ret.value) : IsRowOfRep(ret.value[i], df)
        /\ \A i, j \in 1..Len(ret.value) :
             i < j =>
               /\ ret.value[i].momentum_index = NaN
                    => ret.value[j].momentum_index = NaN
               /\ ~FracLt(ret.value[i].momentum_index,
                          ret.value[j].momentum_index)

\* the first rep of the frame has no computable momentum and came out last,
\* after two reps in decreasing order of momentum
C15_NaNRowMovedLast ==
    /\ AllMomentumReturned
    /\ Len(ret.value) = 3
    /\ ret.value[3].momentum_index = NaN
    /\ ret.value[3].sales_rep_id = df[1].sales_rep_id
    /\ FracLt(ret.value[2].momentum_index, ret.value[1].momentum_index)
    /\ ret.value[1].total_revenue = FracInt(40)


(***************************************************************************)
(* get_top_drivers, memoization                                            *)
(***************************************************************************)
\* self.results[f], f a key
ResultOf(res, f) == res[CHOOSE i \in 1..Len(res) : res[i].factor = f]

\* C16: get_top_drivers(n) returns the results of the first min(n, number of
\* analyzed factors) factors of factor_ranking, in that order, the ranking
\* being there after the call whether or not analyze_all_factors was called
\* before; a call repeated with the same n returns the same list.
C16_FirstOfTheRanking ==
    /\ [](ret.op = "get_top_drivers" =>
            /\ ~ret.raised
            /\ factor_ranking # NoAttribute
            /\ Len(factor_ranking) = Cardinality(AnalyzedFactors(df))
            /\ Len(ret.value) = (IF ret.arg < Len(factor_ranking) THEN ret.arg
                                 ELSE Len(factor_ranking))
            /\ \A i \in 1..Len(ret.value) :
                 /\ DictHas(results, factor_ranking[i])
                 /\ ret.value[i] = ResultOf(results, factor_ranking[i]))
    /\ [][(/\ ret.op = "get_top_drivers"
           /\ ret'.op = "get_top_drivers"
           /\ ret'.arg = ret.arg) => ret'.value = ret.value]_vars

\* two drivers were returned out of three or more, the first of them not the
\* first factor analyzed
C16_TwoOfThreeReordered ==
    /\ ret.op = "get_top_drivers"
    /\ ret.arg = 2
    /\ Len(ret.value) = 2
    /\ Len(results) >= 3
    /\ ret.value[1].factor # results[1].factor


\* the methods that analyse on demand
LazyMethods ==
    {"get_top_drivers", "get_improvement_opportunities",
     "get_rep_performance_tiers", "generate_executive_summary",
     "get_actionable_outputs"}

\* factors known to have been analysed on the instance by the calls made so
\* far: all of them once the ranking is there, and those of the last call
AnalysedSoFar ==
    (IF factor_ranking # NoAttribute THEN FactorSet ELSE {})
        \cup {ret.analyses[i] : i \in 1..Len(ret.analyses)}

\* C17: once a factor has been analysed on an instance, no later call of
\* get_top_drivers, get_improvement_opportunities, get_rep_performance_tiers,
\* generate_executive_summary or get_actionable_outputs analyses it again
\* (neither a call that follows, nor one of these methods called inside
\* another), also when the analysis gave no result for any factor.
C17_NoFactorAnalysedAgain ==
    /\ [](ret.op \in LazyMethods =>
            \A i, j \in 1..Len(ret.analyses) :
                i # j => ret.analyses[i] # ret.analyses[j])
    /\ [][ret'.op \in LazyMethods =>
            \A i \in 1..Len(ret'.analyses) :
                ret'.analyses[i] \notin AnalysedSoFar]_vars


(***************************************************************************)
(* best and worst category, the keys of results, the executive summary     *)
(***************************************************************************)
\* the win rate of category c1 of factor f is at most that of c2
RateAtMost(d, f, c1, c2) ==
    CategoryWins(d, f, c1) * CategoryRows(d, f, c2)
        <= CategoryWins(d, f, c2) * CategoryRows(d, f, c1)

\* rate is the win rate of category c of factor f, in percent
IsRateOf(rate, d, f, c) ==
    /\ rate.den > 0
    /\ rate.num * CategoryRows(d, f, c) = 100 * CategoryWins(d, f, c) * rate.den

\* the regions of the frame: East 120 deals, 70 won; West 150, 60 won;
\* South 90, 30 won
EastWestSouth(d) ==
    /\ CategoriesOf(d, "region") = {"East", "West", "South"}
    /\ CategoryRows(d, "region", "East") = 120
    /\ CategoryWins(d, "region", "East") = 70
    /\ CategoryRows(d, "region", "West") = 150
    /\ CategoryWins(d, "region", "West") = 60
    /\ CategoryRows(d, "region", "South") = 90
    /\ CategoryWins(d, "region", "South") = 30

\* C18: in every factor result best_win_rate is the greatest and
\* worst_win_rate the least of the win rates of the factor's categories,
\* best_category and worst_category are categories with these rates, and
\* spread is their difference, not negative; for the regions East (120 deals,
\* 70 won), West (150, 60), South (90, 30) there is a result, with East the
\* best and South the worst category.
C18_BestAndWorstCategory ==
    (ret.op = "analyze_factor_impact" /\ ~ret.raised) =>
        /\ ~ret.value.none =>
             /\ ret.value.best_category \in CategoriesOf(df, ret.arg)
             /\ ret.value.worst_category \in CategoriesOf(df, ret.arg)
             /\ IsRateOf(ret.value.best_win_rate, df, ret.arg,
                         ret.value.best_category)
             /\ IsRateOf(ret.value.worst_win_rate, df, ret.arg,
                         ret.value.worst_category)
             /\ \A c \in CategoriesOf(df, ret.arg) :
                  /\ RateAtMost(df, ret.arg, c, ret.value.best_category)
                  /\ RateAtMost(df, ret.arg, ret.value.worst_category, c)
             /\ ret.value.spread.den > 0
             /\ ret.value.spread.num >= 0
             /\ ret.value.spread.num * ret.value.best_win_rate.den
                                     * ret.value.worst_win_rate.den
                  = (ret.value.best_win_rate.num * ret.value.worst_win_rate.den
                     - ret.value.worst_win_rate.num * ret.value.best_win_rate.den)
                    * ret.value.spread.den
        /\ (ret.arg = "region" /\ EastWestSouth(df)) =>
             /\ ~ret.value.none
             /\ ret.value.best_category = "East"
             /\ ret.value.worst_category = "South"

\* region was analysed on the frame of East, West and South
C18_EastWestSouthAnalysed ==
    /\ Analyzed
    /\ ret.arg = "region"
    /\ EastWestSouth(df)
    /\ ret.value.spread = Frac[100 * 70 * 90 - 100 * 30 * 120, 120 * 90]


\* the keys of self.results
Keys(res) == {res[i].factor : i \in 1..Len(res)}

\* C19: after analyze_all_factors the keys of results are exactly the
\* configured factors with at least 100 rows in their table, factor_ranking
\* lists each key once, and the result stored for a factor is the one
\* analyze_factor_impact gives for it, whichever other factors were left out.
C19_KeysAreTheFactorsAboveTheGate ==
    /\ ret.op = "analyze_all_factors" => ~ret.raised /\ ret.value = results
    /\ factor_ranking # NoAttribute =>
         /\ Keys(results) = AnalyzedFactors(df)
         /\ Len(results) = Cardinality(AnalyzedFactors(df))
         /\ Len(factor_ranking) = Len(results)
         /\ {factor_ranking[i] : i \in 1..Len(factor_ranking)} = Keys(results)
         /\ \A i \in 1..Len(results) :
              results[i] = Analysis(df, results[i].factor)

\* lead_source was left out, factors before and after it were kept
C19_LeadSourceLeftOut ==
    /\ ret.op = "analyze_all_factors"
    /\ RowsWithFactor(df, "lead_source") < 100
    /\ Keys(results) = FactorSet \ {"lead_source"}


\* C20: generate_executive_summary returns a report, without raising, for
\* every dataset of at least 100 deals with a binary is_won, a dataset
\* without won deals or without lost deals and factor columns with one
\* category or with nulls included.
C20_SummaryNeverRaises ==
    (ret.op = "generate_executive_summary" /\ DealCount(df) >= 100) =>
        ~ret.raised


(***************************************************************************)
(* The dataset is only read                                                *)
(***************************************************************************)
\* C21: no operation of the analyzer changes the rows of the dataset (their
\* values, number or order); the only change is the velocity_score column,
\* added where it was absent by generate_executive_summary, called directly
\* or by get_actionable_outputs.
C21_DatasetOnlyGainsVelocity ==
    /\ [][df' = df]_vars
    /\ [][has_velocity' # has_velocity =>
            /\ ~has_velocity
            /\ has_velocity'
            /\ ret'.op \in {"generate_executive_summary",
                            "get_actionable_outputs"}]_vars

\* the summary was generated over a frame with rows of 0 cycle days, and the
\* velocity_score column is there
C21_VelocityAttached ==
    /\ ret.op = "generate_executive_summary"
    /\ ~ret.raised
    /\ has_velocity
    /\ \E i \in 1..Len(df) : df[i].sales_cycle_days = 0


(***************************************************************************)
(* Cramer's V, effect size, significance                                   *)
(***************************************************************************)
\* min(rows, cols) - 1 of the contingency table of factor f
ShapeMinDim(d, f) ==
    (IF ShapeRows(d, f) < ShapeCols(d, f) THEN ShapeRows(d, f)
     ELSE ShapeCols(d, f)) - 1

\* x times k equals y
RatTimesIntEq(x, k, y) ==
    BigCmp[BigMul[BigMul[x.num, BigFromInt[k]], y.den],
           BigMul[y.num, x.den]] = 0

AboveCritical(chi_square, dof) ==
    dof > 0 /\ RatLt(Chi2Critical(dof), chi_square)

\* C23: in every factor result effect_size is 'large' iff cramers_v > 0.25,
\* 'medium' iff 0.15 < cramers_v <= 0.25 and 'small' iff cramers_v <= 0.15,
\* the values 0.25 and 0.15 themselves falling in the lower band, and
\* significant is true iff p_value < 0.05.
C23_EffectSizeBands ==
    Analyzed =>
        /\ ret.value.effect_size = "large"
             <=> RatLt(Rat(1, 16), ret.value.cramers_v_sq)
        /\ ret.value.effect_size = "medium"
             <=> /\ RatLt(Rat(9, 400), ret.value.cramers_v_sq)
                 /\ RatLe(ret.value.cramers_v_sq, Rat(1, 16))
        /\ ret.value.effect_size = "small"
             <=> RatLe(ret.value.cramers_v_sq, Rat(9, 400))
        /\ ret.value.significant
             <=> AboveCritical(ret.value.chi_square, ShapeDof(df, ret.arg))

\* a result with cramers_v exactly 0.25, of medium effect and significant
C23_ExactlyQuarter ==
    /\ Analyzed
    /\ RatEq(ret.value.cramers_v_sq, Rat(1, 16))
    /\ ret.value.effect_size = "medium"
    /\ ret.value.significant

Summarized == ret.op = "generate_executive_summary" /\ ~ret.raised

\* s is the first min(k, Len(all)) entries of all
IsFirstOf(s, k, all) ==
    /\ Len(s) = Min(k, Len(all))
    /\ \A i \in 1..Len(s) : s[i] = all[i]

\* s lists the k entries of lowest win rate of tier (all of them when the
\* tier has no more than k), lowest first
IsLowestOf(s, k, tier) ==
    /\ Len(s) = Min(k, Len(tier))
    /\ \A i, j \in 1..Len(s) : i < j => FracLe(s[i].rate, s[j].rate)
    /\ \E pos \in [1..Len(s) -> 1..Len(tier)] :
           /\ \A i, j \in 1..Len(s) : i # j => pos[i] # pos[j]
           /\ \A i \in 1..Len(s) : tier[pos[i]] = s[i]
           /\ \A m \in 1..Len(tier) :
                  (\A i \in 1..Len(s) : pos[i] # m) =>
                      \A i \in 1..Len(s) : FracLe(s[i].rate, tier[m].rate)

\* C24: the executive summary reports the first three results of the
\* ranking (all of them when there are fewer), the first five of the
\* opportunities sorted by impact, the five at-risk reps of lowest win rate
\* in ascending order of win rate, and as tier counts the sizes of the four
\* tiers of get_rep_performance_tiers.
C24_SummaryTruncatesItsLists ==
    Summarized =>
        /\ IsFirstOf(ret.value.top_drivers, 3, RankedResults(results))
        /\ \A i \in 1..Len(ret.value.top_drivers) :
               ret.value.top_drivers[i].factor = factor_ranking[i]
        /\ IsFirstOf(ret.value.opportunities, 5,
                     ImprovementOpportunities(Self).value)
        /\ IsLowestOf(ret.value.at_risk, 5,
                      RepPerformanceTiers(Self).value.at_risk)
        /\ \A name \in TierNames :
               ret.value.tier_counts[name]
                   = Len(RepPerformanceTiers(Self).value[name])

\* a summary over more than three ranked factors, more than five
\* opportunities and more than five at-risk reps of differing win rates
C24_MoreThanReported ==
    /\ Summarized
    /\ Len(results) > 3
    /\ Len(ImprovementOpportunities(Self).value) > 5
    /\ Len(RepPerformanceTiers(Self).value.at_risk) > 5
    /\ Len(ret.value.at_risk) = 5
    /\ FracLt(ret.value.at_risk[1].rate, ret.value.at_risk[5].rate)

\* an analyzer just constructed over the dataset held now
Fresh == [df |-> df, has_velocity |-> FALSE, results |-> <<>>,
          factor_ranking |-> NoAttribute, analyses |-> <<>>]

Queries ==
    {"get_top_drivers", "get_improvement_opportunities",
     "get_rep_performance_tiers", "generate_executive_summary"}

\* what the query gives as the first call on a fresh analyzer
FirstCall(op, arg) ==
    CASE op = "get_top_drivers" -> TopDrivers(Fresh, arg)
      [] op = "get_improvement_opportunities" -> ImprovementOpportunities(Fresh)
      [] op = "get_rep_performance_tiers" -> RepPerformanceTiers(Fresh)
      [] op = "generate_executive_summary" -> ExecutiveSummary(Fresh)

\* C25: what get_top_drivers(n), get_improvement_opportunities,
\* get_rep_performance_tiers and generate_executive_summary return (or
\* raise) depends on the held dataset only: after any sequence of public
\* calls it is what the same call gives on a newly constructed analyzer over
\* the same dataset.
C25_QueriesDependOnDatasetOnly ==
    ret.op \in Queries =>
        Let(FirstCall(ret.op, ret.arg), LAMBDA first :
            ret.raised = first.raised /\ ret.value = first.value)

\* a summary answered from the results an earlier call memoized: the only
\* analysis the call makes is that of sales_rep_id
C25_SummaryFromMemoizedResults ==
    /\ Summarized
    /\ ret.analyses = <<"sales_rep_id">>
    /\ Len(results) > 1
    /\ Len(ret.value.opportunities) > 0

\* C26: no insight of generate_business_insights names a region, lead
\* source or product with fewer than MIN_DEALS_FOR_INSIGHT deals.
C26_NoInsightBelowFloor ==
    (ret.op = "generate_business_insights" /\ ~ret.raised) =>
        \A i \in 1..Len(ret.value) :
            \A j \in 1..Len(ret.value[i].names) :
                CategoryRows(df, ret.value[i].segment, ret.value[i].names[j])
                    >= MIN_DEALS_FOR_INSIGHT

\* the lead source insight naming a lead source of fewer than 100 deals, in
\* a frame that has a lead source of 100 deals or more
C26_SmallLeadSourceNamed ==
    /\ ret.op = "generate_business_insights"
    /\ ~ret.raised
    /\ \E i \in 1..Len(ret.value) :
           /\ ret.value[i].segment = "lead_source"
           /\ CategoryRows(df, "lead_source", ret.value[i].names[1])
                  < MIN_DEALS_FOR_INSIGHT
    /\ \E c \in CategoriesOf(df, "lead_source") :
           CategoryRows(df, "lead_source", c) >= MIN_DEALS_FOR_INSIGHT

\* the place of a label in Python's string order
LabelIndex(c) == CHOOSE i \in 1..Len(LabelOrder) : LabelOrder[i] = c

\* categories a and b of factor f have the same win rate
SameRate(d, f, a, b) == RateAtMost(d, f, a, b) /\ RateAtMost(d, f, b, a)

\* C27: of the categories that share the greatest win rate of a factor,
\* best_category is the one with the smallest label in sorted order, and of
\* those that share the least win rate worst_category is; the choice is
\* fixed by the rows of the frame and so is the same on every run.
C27_FirstTiedCategory ==
    Analyzed =>
        \A c \in CategoriesOf(df, ret.arg) :
            /\ SameRate(df, ret.arg, c, ret.value.best_category)
                 => LabelIndex(ret.value.best_category) <= LabelIndex(c)
            /\ SameRate(df, ret.arg, c, ret.value.worst_category)
                 => LabelIndex(ret.value.worst_category) <= LabelIndex(c)

\* East and South share the greatest win rate, the rows of South coming
\* first in the frame, and East is the best category
C27_TieAtTheMaximum ==
    /\ Analyzed
    /\ ret.arg = "region"
    /\ df[1].region = "South"
    /\ ret.value.best_category = "East"
    /\ SameRate(df, "region", "East", "South")
    /\ ret.value.spread.num > 0

\* no row of the frame lacks a value of factor f
NoMissing(d, f) == \A i \in 1..Len(d) : d[i][f] # Null

\* rate, in percent, is at most (at least) the win rate of the whole frame
AtMostOverall(rate, d) == rate.num * DealCount(d) <= 100 * WonCount(d) * rate.den
AtLeastOverall(rate, d) == rate.num * DealCount(d) >= 100 * WonCount(d) * rate.den

\* the entry of category c in category_stats
StatOf(category_stats, c) ==
    category_stats[CHOOSE i \in 1..Len(category_stats) :
                       category_stats[i].category = c]

\* C28: in the result of a factor whose column has no missing value,
\* worst_win_rate <= the win rate of the whole dataset <= best_win_rate, the
\* win_rate_diff of the best category is >= 0 and that of the worst category
\* is <= 0.
C28_OverallBetweenWorstAndBest ==
    (Analyzed /\ NoMissing(df, ret.arg)) =>
        /\ AtMostOverall(ret.value.worst_win_rate, df)
        /\ AtLeastOverall(ret.value.best_win_rate, df)
        /\ StatOf(ret.value.category_stats,
                  ret.value.best_category).win_rate_diff.num >= 0
        /\ StatOf(ret.value.category_stats,
                  ret.value.worst_category).win_rate_diff.num <= 0

\* a result over a column without missing values where the overall win
\* rate lies strictly between the worst and the best of three categories
C28_StrictlyBetween ==
    /\ Analyzed
    /\ NoMissing(df, ret.arg)
    /\ Len(ret.value.category_stats) = 3
    /\ ~AtLeastOverall(ret.value.worst_win_rate, df)
    /\ ~AtMostOverall(ret.value.best_win_rate, df)
    /\ ret.value.worst_category # ret.value.category_stats[3].category

\* the index v returned for the windows of recent and historical days lies
\* between 0 and the historical deal count over the recent deal count, and
\* the windows are nested in their counts and wins
IndexBounded(v, d, rep, recent, historical) ==
    /\ \A i \in 1..Len(d) :
           (d[i].sales_rep_id = rep /\ d[i].closed_date >= RepLatest(d, rep) - recent)
               => d[i].closed_date >= RepLatest(d, rep) - historical
    /\ v # NaN =>
           /\ v.den > 0
           /\ v.num >= 0
           /\ v.num * WindowRows(d, rep, recent)
                  <= WindowRows(d, rep, historical) * v.den
    /\ WindowWins(d, rep, historical) = 0 => WindowWins(d, rep, recent) = 0

WindowReturned ==
    ret.op = "calculate_rep_momentum_index" /\ RepRows(df, ret.arg.rep_id) > 0

ImprovingReps(d) ==
    {rep \in RepsOf(d) :
        /\ ~NotComputable(d, rep)
        /\ 10 * WindowWins(d, rep, 30) * WindowRows(d, rep, 90)
               > 11 * WindowRows(d, rep, 30) * WindowWins(d, rep, 90)}
DecliningReps(d) ==
    {rep \in RepsOf(d) :
        /\ ~NotComputable(d, rep)
        /\ 10 * WindowWins(d, rep, 30) * WindowRows(d, rep, 90)
               < 9 * WindowRows(d, rep, 30) * WindowWins(d, rep, 90)}

\* C30: in the executive summary the improving count is the number of reps
\* with a momentum index above 1.1 and the declining count the number with
\* an index below 0.9; a rep whose index is not computable is in neither
\* count, and no rep is in both.
C30_MomentumCounts ==
    Summarized =>
        /\ ret.value.strategic_metrics.improving = Cardinality(ImprovingReps(df))
        /\ ret.value.strategic_metrics.declining = Cardinality(DecliningReps(df))
        /\ ImprovingReps(df) \cap DecliningReps(df) = {}
        /\ ret.value.strategic_metrics.improving
             + ret.value.strategic_metrics.declining
             + Cardinality({rep \in RepsOf(df) : NotComputable(df, rep)})
               <= Cardinality(RepsOf(df))

\* a summary over an improving rep and a rep whose index is not computable
C30_ImprovingBesideNotComputable ==
    /\ Summarized
    /\ ret.value.strategic_metrics.improving = 1
    /\ ret.value.strategic_metrics.declining = 0
    /\ \E rep \in RepsOf(df) : NotComputable(df, rep)


====
